---- MODULE Spec2Model ----
(***************************************************************************)
(* A model of node-spark (S42yt/node-spark): the version store (install,   *)
(* use, uninstall on the configuration record and the file system), the    *)
(* archive unpacker (extractTarGz, extractZip) and the release index       *)
(* client (FetchAvailableVersions, FetchVersionDetails).                   *)
(*                                                                         *)
(* Strings are TLA+ strings; Go's strings.* and path/filepath.* functions  *)
(* are operators on them, computed as the library computes them.  The file *)
(* system is a function from cleaned absolute paths to nodes.  Symbolic    *)
(* links are leaf nodes: paths are resolved lexically, never through a     *)
(* link.                                                                   *)
(***************************************************************************)
EXTENDS Integers, Sequences, FiniteSets, TLC

VARIABLES
    goos,         \* runtime.GOOS: "linux" or "windows", fixed for a run
    fs,           \* the file system: path -> node
    config,       \* pkg.Config: InstalledVersions, ActiveVersion (InstallPath is fixed)
    pc,           \* position of the operation in progress ("idle" between operations)
    op,           \* the operation in progress: its name, argument and locals
    ret,          \* the last completed operation and its outcome
    before,       \* fs and config as they were when the operation in progress started
    hist,         \* the number of commands issued; in the scenario, the script position
    archive,      \* unpacker: the archive being extracted (entries, and whether the stream is cut)
    archivePath,  \* unpacker: path of the archive file; its name selects the format
    destPath,     \* unpacker: destination directory
    entryIdx,     \* unpacker: index of the next entry to process
    fs0,          \* unpacker: the file system before extraction started
    index,        \* release index client: the remote index as served
    versionQuery, \* release index client: the token being resolved
    resolved,     \* release index client: result of FetchVersionDetails
    tui,          \* terminal UI: the TUIModel fields state, loading, list, error
    running,      \* terminal UI: the tea.Cmd goroutines in flight, each with its position
    global        \* global install/uninstall: the worker, the indicator, the caller, the channels

vars == <<goos, fs, config, pc, op, ret, before, hist, archive, archivePath, destPath,
          entryIdx, fs0, index, versionQuery, resolved, tui, running, global>>

storeVars == <<config, op, before>>
extractVars == <<archive, archivePath, destPath, entryIdx, fs0>>
resolveVars == <<index, versionQuery, resolved>>
tuiVars == <<tui, running>>

\* the elements of a list
Range(list) == {list[i] : i \in 1..Len(list)}

\* a faulty loop: it never finds x
NeverInList(list, x) == FALSE

\* a loop over the list finds x
InList(list, x) == \E i \in 1..Len(list) : list[i] = x

-----------------------------------------------------------------------------
(* Go strings package *)

\* a test that takes every string to carry the prefix
PrefixAlways(s, p) == TRUE

HasPrefix(s, p) ==
    Len(s) >= Len(p) /\ SubSeq(s, 1, Len(p)) = p

HasSuffix(s, p) ==
    Len(s) >= Len(p) /\ SubSeq(s, Len(s) - Len(p) + 1, Len(s)) = p

TrimPrefix(s, p) ==
    IF HasPrefix(s, p) THEN SubSeq(s, Len(p) + 1, Len(s)) ELSE s

TrimSuffix(s, p) ==
    IF HasSuffix(s, p) THEN SubSeq(s, 1, Len(s) - Len(p)) ELSE s

RECURSIVE IndexFrom(_, _, _)
\* index of the first occurrence of the one-character string c in s at or after i; 0 if none
IndexFrom(s, c, i) ==
    IF i > Len(s) THEN 0
    ELSE IF SubSeq(s, i, i) = c THEN i
    ELSE IndexFrom(s, c, i + 1)

RECURSIVE LastIndex(_, _, _)
\* index of the last occurrence of c in s at or before i; 0 if none
LastIndex(s, c, i) ==
    IF i < 1 THEN 0
    ELSE IF SubSeq(s, i, i) = c THEN i
    ELSE LastIndex(s, c, i - 1)

RECURSIVE Split(_, _)
\* strings.Split(s, sep) for a one-character separator
Split(s, sep) ==
    LET i == IndexFrom(s, sep, 1)
    IN  IF i = 0 THEN <<s>>
        ELSE <<SubSeq(s, 1, i - 1)>> \o Split(SubSeq(s, i + 1, Len(s)), sep)

\* strings.SplitN(s, sep, 2)
SplitN2(s, sep) ==
    LET i == IndexFrom(s, sep, 1)
    IN  IF i = 0 THEN <<s>>
        ELSE <<SubSeq(s, 1, i - 1), SubSeq(s, i + 1, Len(s))>>

RECURSIVE ReplaceAll(_, _, _)
\* strings.ReplaceAll for one-character strings
ReplaceAll(s, old, new) ==
    LET i == IndexFrom(s, old, 1)
    IN  IF i = 0 THEN s
        ELSE SubSeq(s, 1, i - 1) \o new \o ReplaceAll(SubSeq(s, i + 1, Len(s)), old, new)

RECURSIVE JoinStrings(_, _)
\* strings.Join(elems, sep)
JoinStrings(elems, sep) ==
    IF elems = <<>> THEN ""
    ELSE IF Len(elems) = 1 THEN elems[1]
    ELSE elems[1] \o sep \o JoinStrings(Tail(elems), sep)

-----------------------------------------------------------------------------
(* Go path/filepath package, for the platform os *)

\* filepath.Separator
Separator(os) ==
    IF os = "windows" THEN "\\" ELSE "/"

\* filepath.FromSlash
FromSlash(os, s) ==
    IF os = "windows" THEN ReplaceAll(s, "/", "\\") ELSE s

RECURSIVE CleanParts(_, _, _)
\* the elements of a path after Clean's rules: "" and "." dropped, ".." cancels the
\* element before it, ".." at the root of a rooted path dropped
CleanParts(parts, rooted, out) ==
    IF parts = <<>> THEN out
    ELSE LET c == Head(parts)
             rest == Tail(parts)
         IN  IF c = "" \/ c = "." THEN CleanParts(rest, rooted, out)
             ELSE IF c = ".."
                  THEN IF out # <<>> /\ out[Len(out)] # ".."
                            THEN CleanParts(rest, rooted, SubSeq(out, 1, Len(out) - 1))
                       ELSE IF rooted THEN CleanParts(rest, rooted, out)
                       ELSE CleanParts(rest, rooted, Append(out, ".."))
             ELSE CleanParts(rest, rooted, Append(out, c))

\* filepath.Clean (paths carry no volume name)
Clean(os, path) ==
    LET Result(sep, rooted, body) ==
            IF rooted THEN sep \o body
            ELSE IF body = "" THEN "."
            ELSE body
        Elements(sep, p, rooted) ==
            Result(sep, rooted, JoinStrings(CleanParts(Split(p, sep), rooted, <<>>), sep))
        From(sep, p) == Elements(sep, p, HasPrefix(p, sep))
    IN  From(Separator(os), FromSlash(os, path))

\* filepath.Join of two elements
Join(os, a, b) ==
    IF a = "" /\ b = "" THEN ""
    ELSE Clean(os, IF a = "" THEN b
                   ELSE IF b = "" THEN a
                   ELSE a \o Separator(os) \o b)

\* filepath.Dir
Dir(os, path) ==
    LET UpTo(p) == Clean(os, SubSeq(p, 1, LastIndex(p, Separator(os), Len(p))))
    IN  UpTo(FromSlash(os, path))

\* filepath.Base, for a cleaned path
Base(os, path) ==
    LET i == LastIndex(path, Separator(os), Len(path))
    IN  IF path = Separator(os) THEN path ELSE SubSeq(path, i + 1, Len(path))

\* path is dir itself or lies below it, lexically
Inside(os, dir, path) ==
    path = dir \/ HasPrefix(path, IF dir = Separator(os) THEN dir ELSE dir \o Separator(os))

-----------------------------------------------------------------------------
(* The file system *)

DirNode == [k |-> "dir", d |-> ""]

FileNode(data) == [k |-> "file", d |-> data]

LinkNode(target) == [k |-> "link", d |-> target]

\* a faulty os.Stat: every path is reported present
ExistsAlways(f, p) == TRUE

\* os.Stat / os.Lstat succeeds
Exists(f, p) == p \in DOMAIN f

IsDir(f, p) == p \in DOMAIN f /\ f[p].k = "dir"

IsFile(f, p) == p \in DOMAIN f /\ f[p].k = "file"

Put(f, p, node) ==
    [q \in DOMAIN f \cup {p} |-> IF q = p THEN node ELSE f[q]]

RECURSIVE PathChain(_, _)
\* p and all its ancestors
PathChain(os, p) ==
    LET Above(parent) == IF parent = p THEN {p} ELSE {p} \cup PathChain(os, parent)
    IN  Above(Dir(os, p))

\* os.MkdirAll(p) returns nil: no element of the path exists as a non-directory
MkdirAllOk(f, os, p) ==
    IF p \in DOMAIN f THEN f[p].k = "dir"
    ELSE \A q \in PathChain(os, p) : q \in DOMAIN f => f[q].k = "dir"

\* the file system after a successful os.MkdirAll(p)
MkdirAll(f, os, p) ==
    IF p \in DOMAIN f THEN f
    ELSE [q \in DOMAIN f \cup PathChain(os, p) |-> IF q \in DOMAIN f THEN f[q] ELSE DirNode]

\* os.OpenFile(p, O_CREATE|...) for writing succeeds: p is absent or a regular file
\* (its parent directory exists at every call site)
OpenFileOk(f, p) == p \notin DOMAIN f \/ f[p].k = "file"

\* os.OpenFile(p, O_CREATE|O_RDWR) then io.Copy: bytes are written from offset 0 and
\* the file is not truncated, so a longer old file keeps its tail
WriteNoTrunc(f, p, data) ==
    LET old == IF p \in DOMAIN f THEN f[p].d ELSE ""
    IN  Put(f, p, FileNode(data \o SubSeq(old, Len(data) + 1, Len(old))))

\* os.OpenFile(p, O_WRONLY|O_CREATE|O_TRUNC) then io.Copy; os.WriteFile
WriteTrunc(f, p, data) == Put(f, p, FileNode(data))

\* a faulty removal: nothing is removed
KeepTree(f, os, p) == f

\* os.RemoveAll(p); os.Remove(p) of a leaf
RemoveAll(f, os, p) ==
    [q \in {r \in DOMAIN f : ~Inside(os, p, r)} |-> f[q]]

\* the paths created or changed between two file systems
Touched(f, g) ==
    {p \in DOMAIN g : p \notin DOMAIN f \/ f[p] # g[p]}

-----------------------------------------------------------------------------
(* internal/extract.go *)

\* filepath.Ext: the suffix of the last element from its last dot
Ext(os, path) ==
    LET b == Base(os, path)
        i == LastIndex(b, ".", Len(b))
    IN  IF i = 0 THEN "" ELSE SubSeq(b, i, Len(b))

\* ExtractArchive's dispatch on the archive's name
ArchiveKind(os, apath) ==
    LET ext == Ext(os, apath)
    IN  IF ext = ".gz" /\ HasSuffix(TrimSuffix(apath, ext), ".tar") THEN "tar.gz"
        ELSE IF ext = ".zip" THEN "zip"
        ELSE "unsupported"

\* an extraction outcome
Outcome(f, e) == [fs |-> f, err |-> e]

\* extractTarGz: the entry is skipped because its name has no second component
TarSkips(os, name) ==
    Len(SplitN2(name, Separator(os))) < 2

\* extractTarGz: the target of an entry
TarTarget(os, dest, name) ==
    Join(os, dest, SplitN2(name, Separator(os))[2])

\* extractTarGz: one iteration of the loop, for header e
TarEntry(f, os, dest, e) ==
    LET TypeReg(g, target) ==
            IF OpenFileOk(g, target)
            THEN Outcome(WriteNoTrunc(g, target, e.data), FALSE)
            ELSE Outcome(g, TRUE)
        TypeSymlink(g, target) ==
            IF os # "windows" /\ ~Exists(g, target)
            THEN Outcome(Put(g, target, LinkNode(e.data)), FALSE)
            ELSE Outcome(g, FALSE)
        Switch(target, parent) ==
            CASE e.typ = "dir" ->
                    IF MkdirAllOk(f, os, target)
                    THEN Outcome(MkdirAll(f, os, target), FALSE)
                    ELSE Outcome(f, TRUE)
              [] e.typ = "file" ->
                    IF ~MkdirAllOk(f, os, parent) THEN Outcome(f, TRUE)
                    ELSE TypeReg(MkdirAll(f, os, parent), target)
              [] e.typ = "symlink" ->
                    IF ~MkdirAllOk(f, os, parent) THEN Outcome(f, TRUE)
                    ELSE TypeSymlink(MkdirAll(f, os, parent), target)
              [] OTHER -> Outcome(f, FALSE)
        At(target) == Switch(target, Dir(os, target))
    IN  IF TarSkips(os, e.name) THEN Outcome(f, FALSE)
        ELSE At(TarTarget(os, dest, e.name))

\* extractZip: the top-level directory, from the first entry ("" for an empty archive)
ZipTopLevelDir(os, entries) ==
    IF entries = <<>> THEN ""
    ELSE Split(FromSlash(os, entries[1].name), Separator(os))[1]

\* extractZip: the entry is the bare top-level directory
ZipSkipsTop(os, top, name) ==
    LET normalizedPath == FromSlash(os, name)
    IN  normalizedPath = top \o "/" \/ normalizedPath = top

\* extractZip: the target of an entry, cleaned
ZipTarget(os, dest, top, name) ==
    LET TargetPath(normalizedPath) ==
            Join(os, dest,
                 IF HasPrefix(normalizedPath, top)
                 THEN TrimPrefix(TrimPrefix(TrimPrefix(normalizedPath, top),
                                            Separator(os)), "/")
                 ELSE normalizedPath)
    IN  Clean(os, TargetPath(FromSlash(os, name)))

\* extractZip: the zip-slip guard lets the target through
ZipGuardPasses(os, dest, cleanedTarget) ==
    HasPrefix(cleanedTarget, Clean(os, dest))

\* zip.File.FileInfo().IsDir(): the directory bit, which a trailing slash sets
ZipIsDir(e) ==
    e.typ = "dir" \/ HasSuffix(e.name, "/")

\* a faulty loop body: a rejected entry ends the extraction with an error and
\* nothing is written
ZipEntryStopsAtGuard(f, os, dest, top, e) ==
    Outcome(f, ~ZipSkipsTop(os, top, e.name)
               /\ ~ZipGuardPasses(os, dest, ZipTarget(os, dest, top, e.name)))

\* extractZip: one iteration of the second loop, for file e
ZipEntry(f, os, dest, top, e) ==
    LET Create(g, cleanedTarget) ==
            IF HasSuffix(cleanedTarget, Separator(os)) THEN Outcome(g, FALSE)
            ELSE IF OpenFileOk(g, cleanedTarget)
                 THEN Outcome(WriteTrunc(g, cleanedTarget, e.data), FALSE)
                 ELSE Outcome(g, TRUE)
        Write(cleanedTarget, parent) ==
            IF ~ZipGuardPasses(os, dest, cleanedTarget) THEN Outcome(f, FALSE)
            ELSE IF ZipIsDir(e)
                 THEN IF MkdirAllOk(f, os, cleanedTarget)
                      THEN Outcome(MkdirAll(f, os, cleanedTarget), FALSE)
                      ELSE Outcome(f, TRUE)
            ELSE IF ~MkdirAllOk(f, os, parent) THEN Outcome(f, TRUE)
            ELSE Create(MkdirAll(f, os, parent), cleanedTarget)
        At(cleanedTarget) == Write(cleanedTarget, Dir(os, cleanedTarget))
    IN  IF ZipSkipsTop(os, top, e.name) THEN Outcome(f, FALSE)
        ELSE At(ZipTarget(os, dest, top, e.name))

\* filepath.Walk(root) looking for a non-directory named name: the matches.  Walk
\* visits in lexical order and the search stops at the first match.
WalkMatches(f, os, root, name) ==
    {p \in DOMAIN f : Inside(os, root, p) /\ f[p].k # "dir" /\ Base(os, p) = name}

\* the match Walk stops at (the model's trees hold at most one)
WalkFirst(f, os, root, name) ==
    CHOOSE p \in WalkMatches(f, os, root, name) : TRUE

\* extractZip: the check after the loop; on Windows a node.exe found below the
\* destination is copied to its root
ZipVerify(f, os, dest) ==
    LET nodePath == Join(os, dest, "node.exe")
    IN  IF os = "windows" /\ ~Exists(f, nodePath)
             /\ WalkMatches(f, os, dest, "node.exe") # {}
             /\ IsFile(f, WalkFirst(f, os, dest, "node.exe"))
        THEN WriteTrunc(f, nodePath, f[WalkFirst(f, os, dest, "node.exe")].d)
        ELSE f

RECURSIVE TarEntries(_, _, _, _, _)
\* extractTarGz's loop from entry i on
TarEntries(f, os, dest, entries, i) ==
    IF i > Len(entries) THEN Outcome(f, FALSE)
    ELSE LET Rest(r) == IF r.err THEN r ELSE TarEntries(r.fs, os, dest, entries, i + 1)
         IN  Rest(TarEntry(f, os, dest, entries[i]))

RECURSIVE ZipEntries(_, _, _, _, _, _)
\* extractZip's second loop from entry i on
ZipEntries(f, os, dest, top, entries, i) ==
    IF i > Len(entries) THEN Outcome(f, FALSE)
    ELSE LET Rest(r) == IF r.err THEN r
                        ELSE ZipEntries(r.fs, os, dest, top, entries, i + 1)
         IN  Rest(ZipEntry(f, os, dest, top, entries[i]))

\* extractTarGz; a truncated stream (arch.bad) ends the loop with the reader's error
ExtractTarGz(f, os, dest, arch) ==
    LET AtEnd(r) == IF r.err THEN r ELSE Outcome(r.fs, arch.bad)
    IN  AtEnd(TarEntries(f, os, dest, arch.entries, 1))

\* extractZip; an unreadable container (arch.bad) fails in zip.OpenReader
ExtractZip(f, os, dest, arch) ==
    LET AtEnd(r) == IF r.err THEN r ELSE Outcome(ZipVerify(r.fs, os, dest), FALSE)
        Loop(top) == IF arch.bad \/ top = "" THEN Outcome(f, TRUE)
                     ELSE AtEnd(ZipEntries(f, os, dest, top, arch.entries, 1))
    IN  Loop(ZipTopLevelDir(os, arch.entries))

\* ExtractArchive
ExtractArchive(f, os, apath, dest, arch) ==
    CASE ArchiveKind(os, apath) = "tar.gz" -> ExtractTarGz(f, os, dest, arch)
      [] ArchiveKind(os, apath) = "zip" -> ExtractZip(f, os, dest, arch)
      [] OTHER -> Outcome(f, TRUE)

-----------------------------------------------------------------------------
(* The unpacker as a state machine: one step per archive entry *)

\* longest archive the unpacker specification draws
MaxEntries == 2

Entry(name, typ, data) == [name |-> name, typ |-> typ, data |-> data]

\* archive entries: directories, files, symbolic links (one named with the
\* Windows separator), a device node; names under the top-level directory T,
\* names that leave it, and names that only start like it
ArchiveEntries ==
    { Entry("T/", "dir", ""),
      Entry("T/a/", "dir", ""),
      Entry("T/a/b", "file", "bb"),
      Entry("T/a/b", "file", "c"),
      Entry("T/a", "file", "a"),
      Entry("T/bin/node.exe", "file", "n"),
      Entry("T/T/f", "file", "t"),
      Entry("T/../../evil.txt", "file", "e"),
      Entry("T/../dx/e", "file", "e"),
      Entry("Tx/f", "file", "f"),
      Entry("U/f", "file", "u"),
      Entry("T/ln", "symlink", "a/b"),
      Entry("T\\a\\b\\ln", "symlink", "x"),
      Entry("T/dev", "other", "") }

RECURSIVE SeqsUpTo(_, _)
\* the sequences over S of length at most n
SeqsUpTo(S, n) ==
    IF n = 0 THEN {<<>>}
    ELSE LET shorter == SeqsUpTo(S, n - 1)
         IN  shorter \cup {Append(q, x) : q \in {r \in shorter : Len(r) = n - 1}, x \in S}

\* the root directory and the destination's parent
RootPath(os) == Separator(os)

\* the destination directory of the unpacker specification
UnpackDest(os) == Separator(os) \o "d"

\* file systems extraction starts from: an empty destination, or one that holds a
\* file left by an earlier extraction
StartTrees(os) ==
    LET empty == MkdirAll(<<>>, os, UnpackDest(os))
    IN  { empty,
          WriteTrunc(MkdirAll(empty, os, Join(os, UnpackDest(os), "a")),
                     Join(os, Join(os, UnpackDest(os), "a"), "b"), "old") }

NoConfig == [InstalledVersions |-> <<>>, ActiveVersion |-> ""]

NoOp == [name |-> "none"]

InitExtract ==
    /\ goos \in {"linux", "windows"}
    /\ archive \in {[entries |-> q, bad |-> FALSE] : q \in SeqsUpTo(ArchiveEntries, MaxEntries)}
    /\ archivePath \in {"/tmp/a.tar.gz", "/tmp/a.zip"}
    /\ destPath = UnpackDest(goos)
    /\ fs0 \in StartTrees(goos)
    /\ fs = fs0
    /\ entryIdx = 1
    /\ pc = "open"
    /\ ret = "none"
    /\ config = NoConfig /\ op = NoOp /\ before = NoOp /\ hist = <<>>
    /\ index = <<>> /\ versionQuery = "" /\ resolved = NoOp
    /\ tui = NoOp /\ running = <<>> /\ global = NoOp

\* ExtractArchive's dispatch, and extractZip's first pass
ExtractOpen ==
    /\ pc = "open"
    /\ IF ArchiveKind(goos, archivePath) = "zip"
          /\ (archive.bad \/ ZipTopLevelDir(goos, archive.entries) = "")
       THEN pc' = "done" /\ ret' = "err"
       ELSE pc' = "entries" /\ ret' = ret
    /\ UNCHANGED <<goos, fs, storeVars, hist, extractVars, resolveVars, tuiVars, global>>

\* one iteration of the entry loop of extractTarGz or extractZip
ExtractEntry ==
    /\ pc = "entries"
    /\ entryIdx <= Len(archive.entries)
    /\ LET e == archive.entries[entryIdx]
           r == IF ArchiveKind(goos, archivePath) = "zip"
                THEN ZipEntry(fs, goos, destPath, ZipTopLevelDir(goos, archive.entries), e)
                ELSE TarEntry(fs, goos, destPath, e)
       IN  /\ fs' = r.fs
           /\ IF r.err
              THEN pc' = "done" /\ ret' = "err" /\ entryIdx' = entryIdx
              ELSE pc' = pc /\ ret' = ret /\ entryIdx' = entryIdx + 1
    /\ UNCHANGED <<goos, storeVars, hist, archive, archivePath, destPath, fs0, resolveVars,
                   tuiVars, global>>

\* the end of the archive: the reader's error for a cut stream, extractZip's check
\* for node.exe, and the return
ExtractFinish ==
    /\ pc = "entries"
    /\ entryIdx > Len(archive.entries)
    /\ pc' = "done"
    /\ IF ArchiveKind(goos, archivePath) = "zip"
       THEN fs' = ZipVerify(fs, goos, destPath) /\ ret' = "ok"
       ELSE fs' = fs /\ ret' = IF archive.bad THEN "err" ELSE "ok"
    /\ UNCHANGED <<goos, storeVars, hist, extractVars, resolveVars, tuiVars, global>>

NextExtract == ExtractOpen \/ ExtractEntry \/ ExtractFinish

SpecExtract == InitExtract /\ [][NextExtract]_vars

\* the step-wise unpacker computes ExtractArchive
ExtractAgrees ==
    pc = "done" =>
        LET r == ExtractArchive(fs0, goos, archivePath, destPath, archive)
        IN  r.fs = fs /\ r.err = (ret = "err")

-----------------------------------------------------------------------------
(* Properties of the unpacker *)

IsZip == ArchiveKind(goos, archivePath) = "zip"

IsTar == ArchiveKind(goos, archivePath) = "tar.gz"

\* the name of an entry below the top-level directory T, without a trailing slash
Rel(e) == TrimSuffix(TrimPrefix(e.name, "T/"), "/")

\* the entry is the top-level directory itself
BareTop(e) == e.name = "T/" /\ e.typ = "dir"

\* the entry is a regular file or a directory named T/REL, REL without empty, "."
\* or ".." elements, or it is the top-level directory itself
WellFormed(e) ==
    \/ BareTop(e)
    \/ /\ HasPrefix(e.name, "T/")
       /\ e.typ \in {"file", "dir"}
       /\ (e.typ = "dir") = HasSuffix(e.name, "/")
       /\ \A c \in Range(Split(Rel(e), "/")) : c \notin {"", ".", ".."}

\* where the entry T/REL belongs: dest/REL
Want(e) == Join(goos, destPath, FromSlash(goos, Rel(e)))

\* the well-formed entries of the archive, by index
WellFormedEntries ==
    {i \in 1..Len(archive.entries) : WellFormed(archive.entries[i])}

WantedFiles ==
    {Want(archive.entries[i]) : i \in {j \in WellFormedEntries : archive.entries[j].typ = "file"}}

WantedDirs ==
    UNION ( {PathChain(goos, Want(archive.entries[i])) :
                i \in {j \in WellFormedEntries : archive.entries[j].typ = "dir"}}
            \cup {PathChain(goos, Dir(goos, Want(archive.entries[i]))) :
                i \in {j \in WellFormedEntries : archive.entries[j].typ = "file"}} )

\* no well-formed entry asks for a file where another entry or the tree before the
\* extraction has a directory, or for a directory where there is a file
NoClash ==
    /\ WantedFiles \cap WantedDirs = {}
    /\ \A p \in WantedFiles : p \in DOMAIN fs0 => fs0[p].k = "file"
    /\ \A p \in WantedDirs : p \in DOMAIN fs0 => fs0[p].k = "dir"

\* entry j is the last one of its name
LastOfName(j) ==
    \A k \in (j + 1)..Len(archive.entries) : archive.entries[k].name # archive.entries[j].name

\* entry j has been extracted to dest/REL with its contents
Extracted(j) ==
    LET e == archive.entries[j]
    IN  \/ BareTop(e)
        \/ e.typ = "dir" /\ IsDir(fs, Want(e))
        \/ /\ e.typ = "file"
           /\ IsFile(fs, Want(e))
           /\ LastOfName(j) => fs[Want(e)].d = e.data

\* extractZip's guard rejects entry i
Rejected(i) ==
    LET top == ZipTopLevelDir(goos, archive.entries)
        e == archive.entries[i]
    IN  /\ ~ZipSkipsTop(goos, top, e.name)
        /\ ~ZipGuardPasses(goos, destPath, ZipTarget(goos, destPath, top, e.name))

\* C5: extracting a zip archive creates files and directories only at or below the
\* destination: every path the extraction creates or changes lies lexically inside
\* destPath, an entry whose cleaned target does not being skipped
ZipCreatesOnlyBelowDest ==
    IsZip => \A p \in Touched(fs0, fs) : Inside(goos, destPath, p)

\* C6: extracting a tar.gz archive creates no file, directory or link outside the
\* destination, whatever the entry names are
TarCreatesOnlyBelowDest ==
    IsTar => \A p \in Touched(fs0, fs) : Inside(goos, destPath, p)

\* C7: when extractZip's guard rejects an entry the extraction goes on: with the
\* other entries well-formed and free of clashes, every well-formed entry after the
\* rejected one is extracted and the extraction returns success
ZipContinuesAfterRejectedEntry ==
    ( /\ pc = "done"
      /\ IsZip
      /\ \E i \in 1..Len(archive.entries) : Rejected(i)
      /\ \A i \in 1..Len(archive.entries) : Rejected(i) \/ WellFormed(archive.entries[i])
      /\ NoClash )
    => /\ ret = "ok"
       /\ \A i \in 1..Len(archive.entries), j \in WellFormedEntries :
             (Rejected(i) /\ i < j) => Extracted(j)

\* a zip archive whose first entry was rejected and whose second, a regular file,
\* has been extracted
ZipRejectedThenExtracted ==
    /\ pc = "done"
    /\ IsZip
    /\ ret = "ok"
    /\ Len(archive.entries) = 2
    /\ Rejected(1)
    /\ archive.entries[2] = Entry("T/a/b", "file", "c")
    /\ IsFile(fs, Join(goos, Join(goos, destPath, "a"), "b"))
    /\ fs[Join(goos, Join(goos, destPath, "a"), "b")].d = "c"

\* C8: for a well-formed archive (tar.gz or zip) under the single top-level
\* directory T, extraction creates for each entry T/REL exactly dest/REL with
\* identical contents, creates nothing else, and leaves no path under dest whose
\* first component is T; the bare entry T/ produces nothing
WellFormedArchiveMapsToDest ==
    ( /\ pc = "done"
      /\ IsZip \/ IsTar
      /\ archive.entries # <<>>
      /\ \A i \in 1..Len(archive.entries) : WellFormed(archive.entries[i])
      /\ NoClash )
    => /\ \A j \in 1..Len(archive.entries) : Extracted(j)
       /\ Touched(fs0, fs) \subseteq WantedFiles \cup WantedDirs
       /\ \A p \in Touched(fs0, fs) : ~Inside(goos, Join(goos, destPath, "T"), p)

-----------------------------------------------------------------------------
(* The version store: layout (pkg/config.go, cmd) *)

\* the version arguments the commands are given
Versions == {"1", "v1", "2"}

\* os.UserHomeDir()
HomeDir(os) == Separator(os) \o "h"

\* os.TempDir()
TempDir(os) == Separator(os) \o "tmp"

\* pkg.GetConfigPath
GetConfigPath(os) ==
    Join(os, Join(os, HomeDir(os), ".node-spark"), "config.json")

\* pkg.GetInstallPath of the default configuration LoadConfig returns
GetInstallPath(os) ==
    Join(os, Dir(os, GetConfigPath(os)), "versions")

\* a link kept among the installed versions
LinkInInstallRoot(os) == Join(os, GetInstallPath(os), "current")

\* the activation link of useVersionPosix
SymlinkDir(os) ==
    Join(os, Join(os, HomeDir(os), ".node-spark"), "current")

\* the shim directory of useVersionWindows
ShimDir(os) ==
    Join(os, Join(os, HomeDir(os), ".node-spark"), "shims")

\* the user's persistent PATH variable (Windows registry), kept as a node of fs
UserPathKey == "HKCU:Environment:Path"

RECURSIVE Contains(_, _)
\* strings.Contains / String.Contains
Contains(s, sub) ==
    IF Len(s) < Len(sub) THEN FALSE
    ELSE HasPrefix(s, sub) \/ Contains(Tail(s), sub)

-----------------------------------------------------------------------------
(* internal/windows.go *)

\* the launcher CreateWindowsShims writes for an executable
ShimContent(path) == "@echo off\r\n\"" \o path \o "\" %*"

\* the fallback CreateWindowsShims writes when node.exe was not found
ErrorShim ==
    "@echo off\r\necho Node.js executable could not be found. Please reinstall this version.\r\nexit /b 1"

\* CreateWindowsShims: the directory node.exe is taken from
LocateNodeBin(f, os, nodeBinPath) ==
    LET binDir == Join(os, nodeBinPath, "bin")
    IN  IF Exists(f, Join(os, nodeBinPath, "node.exe")) THEN nodeBinPath
        ELSE IF Exists(f, Join(os, binDir, "node.exe")) THEN binDir
        ELSE IF WalkMatches(f, os, nodeBinPath, "node.exe") # {}
             THEN Dir(os, WalkFirst(f, os, nodeBinPath, "node.exe"))
        ELSE nodeBinPath

\* CreateWindowsShims: the executable the shim for binary launches ("" when the shim
\* is skipped)
ShimSource(f, os, nodeBinPath, binary) ==
    LET sourcePath == Join(os, nodeBinPath, binary)
        baseName == TrimSuffix(binary, ".cmd")
    IN  IF Exists(f, sourcePath) THEN sourcePath
        ELSE IF binary \in {"npm.cmd", "npx.cmd"}
             THEN IF Exists(f, Join(os, nodeBinPath, baseName))
                       THEN Join(os, nodeBinPath, baseName)
                  ELSE IF Exists(f, Join(os, nodeBinPath, baseName \o ".bat"))
                       THEN Join(os, nodeBinPath, baseName \o ".bat")
                  ELSE ""
        ELSE ""

\* CreateWindowsShims: the shim for one binary is written, or skipped
WriteShim(f, os, nodeBinPath, shimDir, binary) ==
    LET Shim(source) ==
            IF source = "" THEN f
            ELSE WriteTrunc(f, Join(os, shimDir, binary), ShimContent(source))
    IN  Shim(ShimSource(f, os, nodeBinPath, binary))

\* CreateWindowsShims
CreateWindowsShims(f, os, nodeBinPath0, shimDir) ==
    LET Stub(g, nodeShimPath) ==
            IF Exists(g, nodeShimPath) THEN g ELSE WriteTrunc(g, nodeShimPath, ErrorShim)
        Shims(g, nodeBinPath) ==
            WriteShim(WriteShim(WriteShim(g, os, nodeBinPath, shimDir, "node.exe"),
                                os, nodeBinPath, shimDir, "npm.cmd"),
                      os, nodeBinPath, shimDir, "npx.cmd")
        Located(g) == Shims(g, LocateNodeBin(g, os, nodeBinPath0))
    IN  Stub(Located(MkdirAll(f, os, shimDir)), Join(os, shimDir, "node.exe"))

\* UpdateWindowsPath: the user PATH gains the shim directory unless it holds it
\* (the PowerShell command is taken to run; its failure is only a warning)
UpdateWindowsPath(f, shimDir) ==
    LET path == IF UserPathKey \in DOMAIN f THEN f[UserPathKey].d ELSE ""
    IN  IF ~Contains(path, shimDir)
        THEN WriteTrunc(f, UserPathKey, path \o ";" \o shimDir)
        ELSE f

\* a faulty script writer: the script is appended to, not rewritten
AppendActivationScript(f, os, shimDir, version) ==
    WriteTrunc(f, Join(os, shimDir, "activate.ps1"),
               (IF Exists(f, Join(os, shimDir, "activate.ps1"))
                THEN f[Join(os, shimDir, "activate.ps1")].d ELSE "")
               \o "# Node.js " \o version \o " $shimDir = " \o shimDir)

\* CreateWindowsActivationScript: the script names the version and the shim directory
CreateWindowsActivationScript(f, os, shimDir, version) ==
    WriteTrunc(f, Join(os, shimDir, "activate.ps1"),
               "# Node.js " \o version \o " $shimDir = " \o shimDir)

\* useVersionWindows: the file system after it
UseVersionWindows(f, os, version) ==
    LET NodeBinPath(versionPath, binPath) ==
            IF Exists(f, binPath) THEN binPath ELSE versionPath
        Activate(versionPath, shimDir) ==
            CreateWindowsActivationScript(
                UpdateWindowsPath(
                    CreateWindowsShims(f, os,
                        NodeBinPath(versionPath, Join(os, versionPath, "bin")), shimDir),
                    shimDir),
                os, shimDir, version)
    IN  Activate(Join(os, GetInstallPath(os), version), ShimDir(os))

-----------------------------------------------------------------------------
(* The version store as a state machine (cmd: InstallNodeVersion,            *)
(* SetActiveVersion, UseVersion, UninstallVersion).  The operations work on  *)
(* the configuration record the command loaded; a command saves it only     *)
(* when the operation returned nil, and no failing path changes it.         *)

NoArchive == [entries |-> <<>>, bad |-> FALSE]

\* the archives the download site serves for a platform: a complete release, a
\* release whose stream is cut, and for Windows a release with node.exe under
\* bin only and one without node.exe
RemoteArchives(os) ==
    IF os = "windows"
    THEN { [entries |-> <<Entry("T/", "dir", ""), Entry("T/node.exe", "file", "n"),
                          Entry("T/npm.cmd", "file", "p")>>, bad |-> FALSE],
           [entries |-> <<Entry("T/", "dir", ""), Entry("T/bin/node.exe", "file", "n")>>,
            bad |-> FALSE],
           [entries |-> <<Entry("T/", "dir", ""), Entry("T/README", "file", "r")>>,
            bad |-> FALSE],
           [entries |-> <<Entry("T/", "dir", ""), Entry("T/node.exe", "file", "n")>>,
            bad |-> TRUE] }
    ELSE { [entries |-> <<Entry("T/", "dir", ""), Entry("T/bin/node", "file", "n")>>,
            bad |-> FALSE],
           [entries |-> <<Entry("T/", "dir", ""), Entry("T/README", "file", "r")>>,
            bad |-> TRUE] }

\* detectSystemInfo on an amd64 host: Windows always takes the x86 build
DetectSystemInfo(os) ==
    IF os = "windows" THEN [arch |-> "x86", os |-> "win", ext |-> "zip"]
    ELSE [arch |-> "x64", os |-> "linux", ext |-> "tar.gz"]

\* InstallNodeVersion: the path the archive is downloaded to
InstallArchivePath(os, version) ==
    LET versionStr == IF HasPrefix(version, "v") THEN version ELSE "v" \o version
        info == DetectSystemInfo(os)
    IN  Join(os, TempDir(os),
             "node-" \o versionStr \o "-" \o info.os \o "-" \o info.arch \o "." \o info.ext)

Snapshot(f, c) == [fs |-> f, config |-> c]

Ret(name, version, res, again) ==
    [name |-> name, version |-> version, res |-> res, again |-> again]

\* json.MarshalIndent of the configuration: the installed list and the active
\* version (version strings hold neither "," nor ";")
Marshal(c) ==
    JoinStrings(c.InstalledVersions, ",") \o ";" \o c.ActiveVersion

\* json.Unmarshal of a configuration file
Unmarshal(data) ==
    LET Fields(parts) ==
            [InstalledVersions |-> IF parts[1] = "" THEN <<>> ELSE Split(parts[1], ","),
             ActiveVersion |-> parts[2]]
    IN  Fields(Split(data, ";"))

\* pkg.SaveConfig
SaveConfig(f, os, c) ==
    WriteTrunc(MkdirAll(f, os, Dir(os, GetConfigPath(os))), GetConfigPath(os), Marshal(c))

\* pkg.LoadConfig: the default configuration when there is no file
LoadConfig(f, os) ==
    IF Exists(f, GetConfigPath(os)) THEN Unmarshal(f[GetConfigPath(os)].d) ELSE NoConfig

\* a faulty command: the configuration is saved whatever the operation returned
SavesAlways(r) == r.name \in {"install", "use", "uninstall"}

\* installCmd, useCmd, uninstallCmd: RunE saves the configuration when the
\* operation returned nil; currentCmd saves nothing
Saves(r) == r.name \in {"install", "use", "uninstall"} /\ r.res = "ok"

\* the operation in progress returns, and the command with it
Return(f, c, r) ==
    /\ fs' = IF Saves(r) THEN SaveConfig(f, goos, c) ELSE f
    /\ config' = c
    /\ ret' = r
    /\ pc' = "idle"
    /\ op' = NoOp
    /\ before' = NoOp

\* a fresh home directory and the configuration LoadConfig makes up when there is
\* no configuration file
InitStore ==
    /\ goos \in {"linux", "windows"}
    /\ fs = MkdirAll(MkdirAll(<<>>, goos, HomeDir(goos)), goos, TempDir(goos))
    /\ config = NoConfig
    /\ pc = "idle"
    /\ op = NoOp
    /\ ret = Ret("none", "", "ok", FALSE)
    /\ before = NoOp
    /\ archive = NoArchive /\ archivePath = "" /\ destPath = "" /\ entryIdx = 0
    /\ fs0 = <<>>
    /\ index = <<>> /\ versionQuery = "" /\ resolved = NoOp
    /\ tui = NoOp /\ running = <<>> /\ global = NoOp

Init ==
    /\ InitStore
    /\ hist = 0

\* InstallNodeVersion, steps 1 and 2: the already-installed check, and the
\* directories
InstallStart(version) ==
    /\ pc = "idle"
    /\ LET cleanVersion == TrimPrefix(version, "v")
           versionDir == Join(goos, GetInstallPath(goos), version)
       IN  IF InList(config.InstalledVersions, cleanVersion)
           THEN Return(fs, config, Ret("install", version, "ok", FALSE))
           ELSE IF ~MkdirAllOk(fs, goos, versionDir)
           THEN Return(fs, config, Ret("install", version, "mkdir", FALSE))
           ELSE /\ fs' = MkdirAll(fs, goos, versionDir)
                /\ op' = [name |-> "install", version |-> version,
                          archivePath |-> InstallArchivePath(goos, version),
                          arch |-> NoArchive]
                /\ before' = Snapshot(fs, config)
                /\ pc' = "install-download"
                /\ UNCHANGED <<config, ret>>
    /\ UNCHANGED <<goos, extractVars, resolveVars, tuiVars, global>>

\* InstallNodeVersion, step 4: DownloadFile.  The retry with the x86 build is
\* for a Windows x64 download, which detectSystemInfo never asks for.
InstallDownload ==
    /\ pc = "install-download"
    /\ \/ \* the request fails or the status is not 200: no file is created
          Return(fs, config, Ret("install", op.version, "download", FALSE))
       \/ \* the transfer fails after os.Create: the partial file stays
          Return(WriteTrunc(fs, op.archivePath, "partial"), config,
                 Ret("install", op.version, "download", FALSE))
       \/ \E a \in RemoteArchives(goos) :
             /\ fs' = WriteTrunc(fs, op.archivePath, "archive")
             /\ op' = [op EXCEPT !.arch = a]
             /\ pc' = "install-extract"
             /\ UNCHANGED <<config, ret, before>>
    /\ UNCHANGED <<goos, extractVars, resolveVars, tuiVars, global>>

\* InstallNodeVersion, step 5: ExtractArchive; from here on the deferred
\* os.Remove(archivePath) runs on every return
InstallExtract ==
    /\ pc = "install-extract"
    /\ LET versionDir == Join(goos, GetInstallPath(goos), op.version)
           After(r) ==
               IF r.err
               THEN Return(RemoveAll(r.fs, goos, op.archivePath), config,
                           Ret("install", op.version, "extract", FALSE))
               ELSE /\ fs' = r.fs
                    /\ pc' = "install-verify"
                    /\ UNCHANGED <<config, op, ret, before>>
       IN  After(ExtractArchive(fs, goos, op.archivePath, versionDir, op.arch))
    /\ UNCHANGED <<goos, extractVars, resolveVars, tuiVars, global>>

\* the deferred os.Remove(archivePath) of an installation that returns
Deferred(f, nested) ==
    IF nested THEN RemoveAll(f, goos, op.archivePath) ELSE f

\* the name under which the operation that activates is reported
Caller(nested) == IF nested THEN "install" ELSE "use"

\* the activation repeats the last completed operation
Again(version, nested) ==
    ~nested /\ ret.name = "use" /\ ret.version = version /\ ret.res = "ok"

\* SetActiveVersion / UseVersion from file system f and configuration c, up to the
\* point where useVersionPosix has removed the old link; useVersionWindows runs
\* to its end.  nested: called by InstallNodeVersion, which only warns on failure.
UseVersion(f, c, version, nested) ==
    LET versionPath == Join(goos, GetInstallPath(goos), version)
    IN  IF ~Exists(f, versionPath)
        THEN Return(Deferred(f, nested), c,
                    Ret(Caller(nested), version,
                        IF nested THEN "ok" ELSE "notinstalled", FALSE))
        ELSE IF goos = "windows"
        THEN Return(Deferred(UseVersionWindows(f, goos, version), nested),
                    [c EXCEPT !.ActiveVersion = version],
                    Ret(Caller(nested), version, "ok", Again(version, nested)))
        ELSE /\ fs' = RemoveAll(MkdirAll(f, goos, Dir(goos, SymlinkDir(goos))),
                                goos, SymlinkDir(goos))
             /\ config' = c
             /\ pc' = "use-link"
             /\ op' = IF nested THEN op
                      ELSE [name |-> "use", version |-> version, archivePath |-> "",
                            arch |-> NoArchive]
             /\ before' = IF nested THEN before ELSE Snapshot(fs, config)
             /\ ret' = ret

\* InstallNodeVersion, steps 6 and 7 and the prompt: the Windows check that
\* node.exe is there (the binary found is taken to run), the installed list, and
\* the activation the user accepts when no version is active
InstallVerify ==
    /\ pc = "install-verify"
    /\ \E response \in {"y", "n"} :
          LET cleanVersion == TrimPrefix(op.version, "v")
              versionDir == Join(goos, GetInstallPath(goos), op.version)
              found == \/ Exists(fs, Join(goos, versionDir, "node.exe"))
                       \/ Exists(fs, Join(goos, Join(goos, versionDir, "bin"), "node.exe"))
              c == [config EXCEPT !.InstalledVersions =
                        IF InList(@, cleanVersion) THEN @ ELSE Append(@, cleanVersion)]
          IN  IF goos = "windows" /\ ~found
              THEN Return(Deferred(fs, TRUE), config,
                          Ret("install", op.version, "verify", FALSE))
              ELSE IF c.ActiveVersion = "" /\ response = "y"
              THEN UseVersion(fs, c, op.version, TRUE)
              ELSE Return(Deferred(fs, TRUE), c, Ret("install", op.version, "ok", FALSE))
    /\ UNCHANGED <<goos, extractVars, resolveVars, tuiVars, global>>

\* SetActiveVersion(version), as the use command calls it
UseStart(version) ==
    /\ pc = "idle"
    /\ UseVersion(fs, config, version, FALSE)
    /\ UNCHANGED <<goos, extractVars, resolveVars, tuiVars, global>>

\* useVersionPosix: os.Symlink, then the active version (created: os.Symlink
\* succeeded)
UseLink ==
    /\ pc = "use-link"
    /\ \E created \in BOOLEAN :
          LET nested == op.name = "install"
              versionPath == Join(goos, GetInstallPath(goos), op.version)
              f == IF created THEN Put(fs, SymlinkDir(goos), LinkNode(versionPath)) ELSE fs
              c == IF created THEN [config EXCEPT !.ActiveVersion = op.version] ELSE config
          IN  Return(Deferred(f, nested), c,
                     Ret(op.name, op.version,
                         IF created \/ nested THEN "ok" ELSE "link",
                         created /\ Again(op.version, nested)))
    /\ UNCHANGED <<goos, extractVars, resolveVars, tuiVars, global>>

\* a faulty loop: the list is left as it is
KeepList(list, x) == list

RECURSIVE RemoveFirst(_, _)
\* UninstallVersion's loop: the first element equal to x is dropped
RemoveFirst(list, x) ==
    IF list = <<>> THEN <<>>
    ELSE IF Head(list) = x THEN Tail(list)
    ELSE <<Head(list)>> \o RemoveFirst(Tail(list), x)

\* UninstallVersion(version)
Uninstall(version) ==
    /\ pc = "idle"
    /\ LET versionPath == Join(goos, GetInstallPath(goos), version)
       IN  IF config.ActiveVersion = version
           THEN Return(fs, config, Ret("uninstall", version, "active", FALSE))
           ELSE IF ~Exists(fs, versionPath)
           THEN Return(fs, config, Ret("uninstall", version, "notinstalled", FALSE))
           ELSE Return(RemoveAll(fs, goos, versionPath),
                       [config EXCEPT !.InstalledVersions = RemoveFirst(@, version)],
                       Ret("uninstall", version, "ok", FALSE))
    /\ UNCHANGED <<goos, extractVars, resolveVars, tuiVars, global>>

\* longest run of commands the store specification follows
MaxOps == 3

\* a command is issued
Command ==
    /\ hist < MaxOps
    /\ hist' = hist + 1

Next ==
    \/ \E version \in Versions : InstallStart(version) /\ Command
    \/ InstallDownload /\ UNCHANGED hist
    \/ InstallExtract /\ UNCHANGED hist
    \/ InstallVerify /\ UNCHANGED hist
    \/ \E version \in Versions : UseStart(version) /\ Command
    \/ UseLink /\ UNCHANGED hist
    \/ \E version \in Versions : Uninstall(version) /\ Command

Spec == Init /\ [][Next]_vars

-----------------------------------------------------------------------------
(* The end-to-end scenario: install(B); install(A); use(A); uninstall(A);    *)
(* use(B); uninstall(A), from a fresh home directory, the downloads, the     *)
(* prompt answers and the link creation left open                            *)

Script(A, B) ==
    << <<"install", B>>, <<"install", A>>, <<"use", A>>, <<"uninstall", A>>,
       <<"use", B>>, <<"uninstall", A>> >>

InitScenario ==
    /\ InitStore
    /\ hist \in {h \in [A : Versions, B : Versions, step : {1}] : h.A # h.B}

\* the next command of the script is issued
Issue(name, version) ==
    /\ hist.step <= Len(Script(hist.A, hist.B))
    /\ Script(hist.A, hist.B)[hist.step] = <<name, version>>
    /\ hist' = [hist EXCEPT !.step = @ + 1]

NextScenario ==
    \/ \E version \in Versions : InstallStart(version) /\ Issue("install", version)
    \/ InstallDownload /\ UNCHANGED hist
    \/ InstallExtract /\ UNCHANGED hist
    \/ InstallVerify /\ UNCHANGED hist
    \/ \E version \in Versions : UseStart(version) /\ Issue("use", version)
    \/ UseLink /\ UNCHANGED hist
    \/ \E version \in Versions : Uninstall(version) /\ Issue("uninstall", version)

SpecScenario == InitScenario /\ [][NextScenario]_vars

-----------------------------------------------------------------------------
(* Properties of the version store *)

\* the names of the directories under the install root
InstalledDirs(f) ==
    {Base(goos, p) : p \in {q \in DOMAIN f : q # GetInstallPath(goos)
                                              /\ Dir(goos, q) = GetInstallPath(goos)}}

\* fs and config as they were before the operation that a step completes
Pre == IF pc = "idle" THEN Snapshot(fs, config) ELSE before

\* what an activation leaves behind: the link, the shim directory, the active
\* version and the installed list
Activation(f, c) ==
    [ link |-> IF Exists(f, SymlinkDir(goos)) THEN f[SymlinkDir(goos)] ELSE NoOp,
      shims |-> [p \in {q \in DOMAIN f : Inside(goos, ShimDir(goos), q)} |-> f[p]],
      active |-> c.ActiveVersion,
      installed |-> c.InstalledVersions ]

\* C1: between operations, after any sequence of install, use and uninstall with
\* arguments with or without a leading "v", the active version is empty or an
\* element of the installed list
ActiveIsInstalled ==
    pc = "idle" =>
        \/ config.ActiveVersion = ""
        \/ InList(config.InstalledVersions, config.ActiveVersion)

\* C2: for an identifier of the installed list, uninstall fails exactly when the
\* identifier is the active version; otherwise it succeeds, the version's
\* directory is gone and the identifier is off the list
UninstallFailsIffActive ==
    [][ ( /\ pc = "idle"
          /\ hist' # hist
          /\ ret'.name = "uninstall"
          /\ InList(config.InstalledVersions, ret'.version) )
        => /\ (ret'.res # "ok") = (config.ActiveVersion = ret'.version)
           /\ ret'.res = "ok" =>
                 /\ ~Exists(fs', Join(goos, GetInstallPath(goos), ret'.version))
                 /\ ~InList(config'.InstalledVersions, ret'.version) ]_vars

\* C3: between operations an identifier is on the installed list exactly when a
\* directory of that name exists under the install root, failed downloads and
\* extractions included
InstalledIffDirectory ==
    pc = "idle" => InstalledDirs(fs) = Range(config.InstalledVersions)

\* C4: in install(A); use(A); uninstall(A); use(B); uninstall(A), with A and B on
\* the installed list and both activations successful, the first uninstall(A)
\* fails with the active-version error and changes neither the disk nor the
\* configuration, and the second succeeds: A's directory is gone, A is off the
\* installed list and B is still the active version
ScenarioRemoveActiveThenOther ==
    [][ /\ ( /\ pc = "idle"
             /\ hist.step = 4 /\ hist'.step = 5
             /\ InList(config.InstalledVersions, hist.A)
             /\ InList(config.InstalledVersions, hist.B)
             /\ ret = Ret("use", hist.A, "ok", FALSE) )
           => /\ ret'.res = "active"
              /\ fs' = fs
              /\ config' = config
        /\ ( /\ pc = "idle"
             /\ hist.step = 6 /\ hist'.step = 7
             /\ InList(config.InstalledVersions, hist.A)
             /\ InList(config.InstalledVersions, hist.B)
             /\ ret = Ret("use", hist.B, "ok", FALSE) )
           => /\ ret'.res = "ok"
              /\ ~Exists(fs', Join(goos, GetInstallPath(goos), hist.A))
              /\ ~InList(config'.InstalledVersions, hist.A)
              /\ InList(config'.InstalledVersions, hist.B)
              /\ config'.ActiveVersion = hist.B ]_vars

\* the scenario has run to its end: B was activated and A then removed
ScenarioCompleted ==
    /\ pc = "idle"
    /\ hist.step = 7
    /\ ret = Ret("uninstall", hist.A, "ok", FALSE)
    /\ config.ActiveVersion = hist.B
    /\ InList(config.InstalledVersions, hist.B)
    /\ ~InList(config.InstalledVersions, hist.A)
    /\ ~Exists(fs, Join(goos, GetInstallPath(goos), hist.A))
    /\ Exists(fs, Join(goos, GetInstallPath(goos), hist.B))

\* C9: a successful use(v) that follows a successful use(v) changes nothing: the
\* link target (POSIX), the shim directory (Windows), the active version and the
\* installed list are what the first call left
UseTwiceChangesNothing ==
    [][ (pc' = "idle" /\ ret'.name = "use" /\ ret'.res = "ok" /\ ret'.again)
        => Activation(fs', config') = Activation(Pre.fs, Pre.config) ]_vars

\* use(v) has succeeded twice in succession
UsedTwice ==
    /\ pc = "idle"
    /\ ret.name = "use" /\ ret.res = "ok" /\ ret.again
    /\ config.ActiveVersion = ret.version
    /\ \/ goos = "windows" /\ Exists(fs, Join(goos, ShimDir(goos), "node.exe"))
       \/ /\ goos = "linux"
          /\ fs[SymlinkDir(goos)] = LinkNode(Join(goos, GetInstallPath(goos), ret.version))

-----------------------------------------------------------------------------
(* internal/fetch.go: the release index client *)

\* the value of a decimal digit, -1 for any other character
DigitValue(c) == IndexFrom("0123456789", c, 1) - 1

RECURSIVE AtoiFrom(_, _)
AtoiFrom(s, acc) ==
    IF s = "" THEN acc
    ELSE IF DigitValue(SubSeq(s, 1, 1)) < 0 THEN -1
    ELSE AtoiFrom(SubSeq(s, 2, Len(s)), 10 * acc + DigitValue(SubSeq(s, 1, 1)))

\* strconv.Atoi for unsigned decimal strings; -1 stands for its error
Atoi(s) == IF s = "" THEN -1 ELSE AtoiFrom(s, 0)

RECURSIVE NumbersOf(_)
\* extractVersionNumbers' loop: the parts that parse, in order
NumbersOf(parts) ==
    IF parts = <<>> THEN <<>>
    ELSE LET num == Atoi(Split(Head(parts), "-")[1])
         IN  (IF num >= 0 THEN <<num>> ELSE <<>>) \o NumbersOf(Tail(parts))

\* extractVersionNumbers
ExtractVersionNumbers(version) ==
    NumbersOf(Split(TrimPrefix(version, "v"), "."))

\* a comparator that puts the shorter tuple first
ShorterFirst(vNumI, vNumJ, k) == Len(vNumI) < Len(vNumJ)

RECURSIVE LessFrom(_, _, _)
\* the comparator's loop from component k on
LessFrom(vNumI, vNumJ, k) ==
    IF k <= Len(vNumI) /\ k <= Len(vNumJ)
    THEN IF vNumI[k] # vNumJ[k] THEN vNumI[k] > vNumJ[k]
         ELSE LessFrom(vNumI, vNumJ, k + 1)
    ELSE Len(vNumI) > Len(vNumJ)

\* the comparator FetchAvailableVersions sorts with: vI goes before vJ
VersionLess(vI, vJ) ==
    LessFrom(ExtractVersionNumbers(vI.Version), ExtractVersionNumbers(vJ.Version), 1)

\* the LTS field of an index row: a boolean or a string
LTSBool(b) == [kind |-> "bool", b |-> b, s |-> ""]

LTSString(s) == [kind |-> "string", b |-> FALSE, s |-> s]

\* NodeVersion.IsLTS
IsLTS(v) ==
    CASE v.LTS.kind = "bool" -> v.LTS.b
      [] v.LTS.kind = "string" -> v.LTS.s # ""
      [] OTHER -> FALSE

\* FetchAvailableVersions: the orders sort.Slice can leave the decoded rows in
FetchAvailableVersions(rows) ==
    { [i \in 1..Len(rows) |-> rows[perm[i]]] : perm \in
        { q \in Permutations(1..Len(rows)) :
            \A i \in 1..Len(rows), j \in 1..Len(rows) :
                i < j => ~VersionLess(rows[q[j]], rows[q[i]]) } }

\* FetchVersionDetails' lookup in the sorted rows
FetchVersionDetails(versions, query) ==
    LET q == IF HasPrefix(query, "v") THEN query ELSE "v" \o query
        hits == {i \in 1..Len(versions) : versions[i].Version = q}
    IN  IF hits = {} THEN [ok |-> FALSE, version |-> q]
        ELSE [ok |-> TRUE,
              version |-> versions[CHOOSE i \in hits : \A j \in hits : i <= j]]

\* most rows the served index holds
MaxIndex == 2

NodeVersion(version, lts) == [Version |-> version, LTS |-> lts]

\* rows of the index: numeric order differs from string order, one version is a
\* prefix of another, LTS is false or a code name
Releases ==
    { NodeVersion("v9.11.2", LTSBool(FALSE)),
      NodeVersion("v10.24.1", LTSString("Dubnium")),
      NodeVersion("v10.3.0", LTSBool(FALSE)),
      NodeVersion("v10.3", LTSBool(FALSE)),
      NodeVersion("v8.17.0", LTSString("Carbon")) }

\* what FetchVersionDetails is asked for
Queries == {"latest", "lts", "10.24.1", "v10.24.1", "v9.11.2", "7.0.0"}

InitResolve ==
    /\ index \in {q \in SeqsUpTo(Releases, MaxIndex) :
                    \A i \in 1..Len(q), j \in 1..Len(q) : q[i] = q[j] => i = j}
    /\ versionQuery = ""
    /\ resolved = NoOp
    /\ tui = NoOp /\ running = <<>> /\ global = NoOp
    /\ pc = "idle"
    /\ goos = "linux" /\ fs = <<>> /\ config = NoConfig /\ op = NoOp
    /\ ret = "none" /\ before = NoOp /\ hist = 0
    /\ archive = NoArchive /\ archivePath = "" /\ destPath = "" /\ entryIdx = 0
    /\ fs0 = <<>>

\* FetchVersionDetails(query) against the served index
Resolve(query) ==
    /\ pc = "idle"
    /\ \E versions \in FetchAvailableVersions(index) :
          resolved' = FetchVersionDetails(versions, query)
    /\ versionQuery' = query
    /\ pc' = "resolved"
    /\ UNCHANGED <<goos, fs, storeVars, ret, hist, extractVars, index, tuiVars, global>>

\* FetchAvailableVersions, as list --remote calls it
ListRemote ==
    /\ pc = "idle"
    /\ \E versions \in FetchAvailableVersions(index) :
          resolved' = [ok |-> TRUE, versions |-> versions]
    /\ pc' = "listed"
    /\ UNCHANGED <<goos, fs, storeVars, ret, hist, extractVars, index, versionQuery,
                   tuiVars, global>>

NextResolve ==
    \/ \E query \in Queries : Resolve(query)
    \/ ListRemote

SpecResolve == InitResolve /\ [][NextResolve]_vars

\* a row of the index that no other row precedes in numeric order
Newest(rows, v) ==
    /\ v \in Range(rows)
    /\ \A w \in Range(rows) : ~VersionLess(w, v)

\* C10: against a non-empty index, "latest" resolves to the row with the greatest
\* numeric version tuple and "lts" to the newest row with an LTS designation (the
\* version an installation with that token then installs and records)
ResolvesLatestAndLts ==
    /\ (pc = "resolved" /\ versionQuery = "latest" /\ index # <<>>)
          => resolved.ok /\ Newest(index, resolved.version)
    /\ (pc = "resolved" /\ versionQuery = "lts" /\ \E v \in Range(index) : IsLTS(v))
          => /\ resolved.ok
             /\ Newest(SelectSeq(index, IsLTS), resolved.version)

-----------------------------------------------------------------------------
(* Further properties of the version store *)

\* the directory of version under the install root
VersionPath(version) == Join(goos, GetInstallPath(goos), version)

\* C11: use(id) for an id whose directory does not exist under the install root
\* fails with the not-installed error, and the active version, the installed list,
\* the activation link and the shim directory are as they were
UseOfMissingVersionFails ==
    [][ \A version \in Versions :
            (UseStart(version) /\ VersionPath(version) \notin DOMAIN fs)
            => /\ pc' = "idle"
               /\ ret' = Ret("use", version, "notinstalled", FALSE)
               /\ Activation(fs', config') = Activation(fs, config) ]_vars

\* use(id) was refused for a missing directory while another version was active
UseRefusedWhileOtherActive ==
    /\ pc = "idle"
    /\ ret.name = "use" /\ ret.res = "notinstalled"
    /\ VersionPath(ret.version) \notin DOMAIN fs
    /\ config.ActiveVersion # ""
    /\ config.ActiveVersion # ret.version

\* C12: when an install that started a transfer returns, whether the download, the
\* extraction or the verification succeeded or failed, the temporary archive file
\* no longer exists
ArchiveRemovedOnReturn ==
    [][ (op.name = "install" /\ pc # "idle" /\ pc' = "idle")
        => op.archivePath \notin DOMAIN fs' ]_vars

\* the names CreateWindowsShims exposes
ShimNames == {"node.exe", "npm.cmd", "npx.cmd"}

\* the executable a launcher written by CreateWindowsShims starts
LaunchedPath(content) ==
    SubSeq(content, Len("@echo off\r\n\"") + 1, Len(content) - Len("\" %*"))

\* the shim at path p launches an executable inside directory dir
LaunchesInside(f, p, dir) ==
    /\ IsFile(f, p)
    /\ f[p].d = ShimContent(LaunchedPath(f[p].d))
    /\ Inside(goos, dir, LaunchedPath(f[p].d))
    /\ LaunchedPath(f[p].d) # dir

\* C13: on Windows, after a successful use(v), every shim for an exposed name in
\* the shim directory launches an executable inside v's directory or is the error
\* stub; none still launches an executable of a version activated before
ShimsLaunchActiveVersion ==
    (goos = "windows" /\ pc = "idle" /\ ret.name = "use" /\ ret.res = "ok")
    => \A binary \in ShimNames :
           LET shimPath == Join(goos, ShimDir(goos), binary)
           IN  Exists(fs, shimPath)
               => \/ LaunchesInside(fs, shimPath, VersionPath(ret.version))
                  \/ fs[shimPath] = FileNode(ErrorShim)

\* useVersionWindows: the directory handed to CreateWindowsShims for version
WindowsNodeBinPath(f, version) ==
    IF Exists(f, Join(goos, VersionPath(version), "bin"))
    THEN Join(goos, VersionPath(version), "bin")
    ELSE VersionPath(version)

\* the executable CreateWindowsShims finds for binary under version ("" if none)
LocatedSource(f, version, binary) ==
    ShimSource(f, goos,
               LocateNodeBin(f, goos, WindowsNodeBinPath(f, version)), binary)

\* C14: on Windows, when shim generation for version v has returned without
\* error, a shim for node.exe exists; if node.exe could not be located under v's
\* directory that shim is the error stub; a secondary tool that is missing only
\* has its shim skipped
PrimaryShimNeverSilentlyMissing ==
    [][ (goos = "windows" /\ pc' = "idle" /\ ret'.name = "use" /\ ret'.res = "ok")
        => /\ IsFile(fs', Join(goos, ShimDir(goos), "node.exe"))
           /\ LocatedSource(fs, ret'.version, "node.exe") = ""
                  => fs'[Join(goos, ShimDir(goos), "node.exe")] = FileNode(ErrorShim)
           /\ \A binary \in {"npm.cmd", "npx.cmd"} :
                  LocatedSource(fs, ret'.version, binary) = ""
                  => LET shimPath == Join(goos, ShimDir(goos), binary)
                     IN  /\ Exists(fs', shimPath) = Exists(fs, shimPath)
                         /\ Exists(fs, shimPath) => fs'[shimPath] = fs[shimPath] ]_vars

-----------------------------------------------------------------------------
(* The commands and their exit status (cmd: installCmd, useCmd, uninstallCmd, *)
(* currentCmd, Execute)                                                      *)

\* GetActiveVersion: the error it returns
GetActiveVersion(c) ==
    IF c.ActiveVersion = "" THEN "noactive" ELSE "ok"

\* the current command
Current ==
    /\ pc = "idle"
    /\ Return(fs, config, Ret("current", "", GetActiveVersion(config), FALSE))
    /\ UNCHANGED <<goos, extractVars, resolveVars, tuiVars, global>>

\* the exit status of the process: Execute exits 1 when the command's RunE returned
\* an error; currentCmd returns nil for the no-active-version error
ExitCode(r) ==
    IF r.res = "ok" THEN 0
    ELSE IF r.name = "current" /\ r.res = "noactive" THEN 0
    ELSE 1

\* the version arguments of the command-line specification
CliVersions == {"1", "2"}

NextCli ==
    \/ \E version \in CliVersions : InstallStart(version) /\ Command
    \/ InstallDownload /\ UNCHANGED hist
    \/ InstallExtract /\ UNCHANGED hist
    \/ InstallVerify /\ UNCHANGED hist
    \/ \E version \in CliVersions : UseStart(version) /\ Command
    \/ UseLink /\ UNCHANGED hist
    \/ \E version \in CliVersions : Uninstall(version) /\ Command
    \/ Current /\ Command

SpecCli == Init /\ [][NextCli]_vars

\* the errors of the taxonomy an operation of the store raises: transfer, not
\* installed, active version, no active version
TaxonomyErrors == {"download", "notinstalled", "active", "noactive"}

\* C15: every error of the taxonomy raised inside a command ends the command with
\* a non-zero exit, and no error outside the best-effort steps (PATH update,
\* compatibility check, secondary shims) becomes a warning with a successful
\* exit: an activation inside install whose link creation fails is an error too
ErrorsEndCommandNonZero ==
    [][ /\ (pc' = "idle" /\ ret'.res \in TaxonomyErrors) => ExitCode(ret') # 0
        /\ (pc = "use-link" /\ pc' = "idle" /\ config'.ActiveVersion # op.version)
           => ExitCode(ret') # 0 ]_vars

\* C16: install(v) for a v whose identifier without the leading "v" is on the
\* installed list returns success without a download and without a change to the
\* disk, the installed list or the active version
InstallOfListedVersionChangesNothing ==
    [][ \A version \in Versions :
            (InstallStart(version)
             /\ TrimPrefix(version, "v") \in Range(config.InstalledVersions))
            => /\ pc' = "idle"
               /\ ret' = Ret("install", version, "ok", FALSE)
               /\ fs' = fs
               /\ config' = config ]_vars

\* install("v1") has returned at the already-installed check: "1" is on the list
\* and no directory was made for "v1"
InstallReturnedAtListCheck ==
    /\ pc = "idle"
    /\ ret = Ret("install", "v1", "ok", FALSE)
    /\ "1" \in Range(config.InstalledVersions)
    /\ ~Exists(fs, VersionPath("v1"))

\* C17: on POSIX, at every step of use(v) the activation path holds the link it
\* held before the call, or nothing, or a link to v's directory; between the
\* removal and the creation it holds nothing, and when the creation fails it is
\* left holding nothing: the previous link is not restored
LinkReplacedWithoutRollback ==
    [][ (goos = "linux" /\ (pc = "use-link" \/ pc' = "use-link"))
        => LET version == IF pc = "use-link" THEN op.version ELSE op'.version
               held == Activation(fs', config').link
               failed == \/ ret'.res = "link"
                         \/ op.name = "install" /\ config'.ActiveVersion = ""
           IN  /\ held \in {Activation(Pre.fs, Pre.config).link, NoOp,
                            LinkNode(VersionPath(version))}
               /\ pc' = "use-link" => held = NoOp
               /\ (pc = "use-link" /\ pc' = "idle" /\ failed) => held = NoOp
               /\ (pc = "use-link" /\ pc' = "idle" /\ ~failed)
                  => held = LinkNode(VersionPath(version)) ]_vars

\* use(v) failed at the link creation while another version was active: the
\* activation path is absent
LinkCreationFailedAfterRemoval ==
    /\ goos = "linux" /\ pc = "idle"
    /\ ret.name = "use" /\ ret.res = "link"
    /\ config.ActiveVersion # "" /\ config.ActiveVersion # ret.version
    /\ ~Exists(fs, SymlinkDir(goos))

\* the configuration file as a node of f (NoOp when there is none)
ConfigFile(f) ==
    IF Exists(f, GetConfigPath(goos)) THEN f[GetConfigPath(goos)] ELSE NoOp

\* C18: install, use and uninstall write the configuration file exactly when
\* their operation returned without error: after success the file holds the
\* record the operation left; after a failure the file, and with it the persisted
\* installed list and active version, is as it was when the command started
ConfigSavedIffOperationSucceeded ==
    [][ (pc' = "idle" /\ ret'.name \in {"install", "use", "uninstall"}
         /\ (pc # "idle" \/ hist' # hist))
        => /\ ret'.res = "ok"
              => /\ ConfigFile(fs') = FileNode(Marshal(config'))
                 /\ LoadConfig(fs', goos) = config'
           /\ ret'.res # "ok"
              => /\ ConfigFile(fs') = ConfigFile(Pre.fs)
                 /\ LoadConfig(fs', goos) = LoadConfig(Pre.fs, goos)
                 /\ config' = Pre.config ]_vars

\* an install failed after an earlier command had saved a non-empty installed list
CommandFailedAfterSave ==
    /\ pc = "idle"
    /\ ret.name = "install" /\ ret.res \in {"download", "extract", "verify"}
    /\ Exists(fs, GetConfigPath(goos))
    /\ LoadConfig(fs, goos).InstalledVersions # <<>>
    /\ LoadConfig(fs, goos) = config

-----------------------------------------------------------------------------
(* The terminal UI as a state machine (cmd: tuiCmd; internal: TUIModel.Update *)
(* and the tea.Cmd wrappers).  The runtime runs every tea.Cmd in a goroutine *)
(* of its own and hands the message it returns to Update; the goroutines     *)
(* share the configuration record and the install root.  A goroutine's       *)
(* operation advances in the steps of the store's operations.                *)

\* most key presses the terminal UI specification follows
MaxKeys == 3

TUIModel(state, loading, items, error) ==
    [state |-> state, loading |-> loading, items |-> items, error |-> error]

\* a tea.Cmd in flight: the operation it wraps, its argument and its position
Goroutine(name, version, at, arch) ==
    [name |-> name, version |-> version, at |-> at, arch |-> arch]

\* loadInstalledVersions(config)
LoadCmd == Goroutine("load", "", "start", NoArchive)

\* the release archive the store of the terminal UI was installed from
ReleaseArchive(os) ==
    CHOOSE a \in RemoteArchives(os) :
        ~a.bad /\ Len(a.entries) = (IF os = "windows" THEN 3 ELSE 2)

RECURSIVE InstalledTree(_, _, _)
\* the file system after the versions of list were installed in f
InstalledTree(f, os, list) ==
    IF list = <<>> THEN f
    ELSE InstalledTree(
             ExtractArchive(MkdirAll(f, os, Join(os, GetInstallPath(os), Head(list))), os,
                            InstallArchivePath(os, Head(list)),
                            Join(os, GetInstallPath(os), Head(list)),
                            ReleaseArchive(os)).fs,
             os, Tail(list))

\* the installed lists the terminal UI starts with
TuiInstalled == {<<>>, <<"1", "2">>}

\* InitTUI and Init, with the configuration tuiCmd loaded: the menu, and the
\* first loadInstalledVersions in flight
InitTui ==
    /\ goos \in {"linux", "windows"}
    /\ \E list \in TuiInstalled :
          /\ config = [InstalledVersions |-> list, ActiveVersion |-> ""]
          /\ fs = InstalledTree(
                      SaveConfig(MkdirAll(MkdirAll(<<>>, goos, HomeDir(goos)),
                                          goos, TempDir(goos)), goos, config),
                      goos, list)
    /\ tui = TUIModel("menu", FALSE, <<>>, "")
    /\ running = <<LoadCmd>>
    /\ hist = 0
    /\ pc = "tui"
    /\ op = NoOp /\ before = NoOp /\ ret = Ret("none", "", "ok", FALSE)
    /\ archive = NoArchive /\ archivePath = "" /\ destPath = "" /\ entryIdx = 0
    /\ fs0 = <<>>
    /\ index = <<>> /\ versionQuery = "" /\ resolved = NoOp
    /\ global = NoOp

\* a key message reaches Update
Key ==
    /\ tui.state # "quit"
    /\ hist < MaxKeys
    /\ hist' = hist + 1

\* Update, "q" or "ctrl+c": in the menu the program quits, tuiCmd saves the
\* configuration and the process ends with its goroutines; elsewhere the menu
\* is shown again and the list reloaded
KeyQuit ==
    /\ Key
    /\ IF tui.state = "menu"
       THEN /\ tui' = [tui EXCEPT !.state = "quit"]
            /\ fs' = SaveConfig(fs, goos, config)
            /\ running' = <<>>
       ELSE /\ tui' = [tui EXCEPT !.state = "menu"]
            /\ fs' = fs
            /\ running' = Append(running, LoadCmd)
    /\ UNCHANGED <<goos, config, pc, op, ret, before, extractVars, resolveVars, global>>

\* Update, "enter" in the install prompt: installVersion(version, config) starts
KeyEnter(version) ==
    /\ Key
    /\ tui.state = "install"
    /\ tui' = [tui EXCEPT !.state = "installing", !.loading = TRUE]
    /\ running' = Append(running, Goroutine("install", version, "start", NoArchive))
    /\ UNCHANGED <<goos, fs, config, pc, op, ret, before, extractVars, resolveVars, global>>

\* Update, "u" in the menu on the selected item: useVersionCmd starts
KeyUse(i) ==
    /\ Key
    /\ tui.state = "menu"
    /\ i \in 1..Len(tui.items)
    /\ tui' = [tui EXCEPT !.loading = TRUE]
    /\ running' = Append(running, Goroutine("use", tui.items[i], "start", NoArchive))
    /\ UNCHANGED <<goos, fs, config, pc, op, ret, before, extractVars, resolveVars, global>>

\* Update, "x" in the menu on the selected item: uninstallVersion starts
KeyUninstall(i) ==
    /\ Key
    /\ tui.state = "menu"
    /\ i \in 1..Len(tui.items)
    /\ tui' = [tui EXCEPT !.loading = TRUE]
    /\ running' = Append(running, Goroutine("uninstall", tui.items[i], "start", NoArchive))
    /\ UNCHANGED <<goos, fs, config, pc, op, ret, before, extractVars, resolveVars, global>>

\* Update, "i" in the menu: the install prompt
KeyInstall ==
    /\ Key
    /\ tui.state = "menu"
    /\ tui' = [tui EXCEPT !.state = "install"]
    /\ UNCHANGED <<goos, fs, config, pc, op, ret, before, running, extractVars, resolveVars,
                   global>>

\* the goroutines in flight without the i-th
Without(list, i) == SubSeq(list, 1, i - 1) \o SubSeq(list, i + 1, Len(list))

\* Update, installedVersionMsg, versionActivatedMsg or versionUninstalledMsg of
\* goroutine i: the menu again, the error kept, and the list reloaded
Done(i, err) ==
    /\ tui' = [tui EXCEPT !.loading = FALSE, !.state = "menu",
                          !.error = IF err = "ok" THEN @ ELSE err]
    /\ running' = Append(Without(running, i), LoadCmd)

\* goroutine i moves on to position at
Move(i, at) ==
    /\ tui' = tui
    /\ running' = [running EXCEPT ![i].at = at]

\* goroutine i is the operation name at position at
At(i, name, at) ==
    /\ tui.state # "quit"
    /\ i \in 1..Len(running)
    /\ running[i].name = name
    /\ running[i].at = at

\* loadInstalledVersions and Update, loadedVersionsMsg: the list is the
\* installed list of the shared configuration
TuiLoad(i) ==
    /\ At(i, "load", "start")
    /\ tui' = [tui EXCEPT !.loading = FALSE, !.items = config.InstalledVersions]
    /\ running' = Without(running, i)
    /\ UNCHANGED <<goos, fs, config, pc, op, ret, before, hist, extractVars, resolveVars,
                   global>>

\* useVersionCmd: UseVersion up to the removal of the old link; on Windows to
\* its end
TuiUse(i) ==
    /\ At(i, "use", "start")
    /\ LET Activate(version) ==
               IF ~Exists(fs, VersionPath(version))
               THEN Done(i, "notinstalled") /\ UNCHANGED <<fs, config>>
               ELSE IF goos = "windows"
               THEN /\ fs' = UseVersionWindows(fs, goos, version)
                    /\ config' = [config EXCEPT !.ActiveVersion = version]
                    /\ Done(i, "ok")
               ELSE /\ fs' = RemoveAll(MkdirAll(fs, goos, Dir(goos, SymlinkDir(goos))),
                                       goos, SymlinkDir(goos))
                    /\ config' = config
                    /\ Move(i, "link")
       IN  Activate(running[i].version)
    /\ UNCHANGED <<goos, pc, op, ret, before, hist, extractVars, resolveVars, global>>

\* useVersionPosix in a goroutine: os.Symlink, which fails when another
\* goroutine has created the link meanwhile, then the active version.  An
\* installation that activates only warns, and removes its archive.
TuiLink(i) ==
    /\ i \in 1..Len(running)
    /\ tui.state # "quit"
    /\ running[i].at = "link"
    /\ \E created \in BOOLEAN :
          /\ created => ~Exists(fs, SymlinkDir(goos))
          /\ LET nested == running[i].name = "install"
                 Linked(f) == IF nested
                              THEN RemoveAll(f, goos,
                                             InstallArchivePath(goos, running[i].version))
                              ELSE f
             IN  /\ fs' = Linked(IF created
                                 THEN Put(fs, SymlinkDir(goos),
                                          LinkNode(VersionPath(running[i].version)))
                                 ELSE fs)
                 /\ config' = IF created
                              THEN [config EXCEPT !.ActiveVersion = running[i].version]
                              ELSE config
                 /\ Done(i, IF created \/ nested THEN "ok" ELSE "link")
    /\ UNCHANGED <<goos, pc, op, ret, before, hist, extractVars, resolveVars, global>>

\* uninstallVersion: UninstallVersion's checks
TuiUninstall(i) ==
    /\ At(i, "uninstall", "start")
    /\ IF config.ActiveVersion = running[i].version
       THEN Done(i, "active")
       ELSE IF ~Exists(fs, VersionPath(running[i].version))
       THEN Done(i, "notinstalled")
       ELSE Move(i, "remove")
    /\ UNCHANGED <<goos, fs, config, pc, op, ret, before, hist, extractVars, resolveVars,
                   global>>

\* uninstallVersion: UninstallVersion's os.RemoveAll and the installed list
TuiRemove(i) ==
    /\ At(i, "uninstall", "remove")
    /\ fs' = RemoveAll(fs, goos, VersionPath(running[i].version))
    /\ config' = [config EXCEPT !.InstalledVersions = RemoveFirst(@, running[i].version)]
    /\ Done(i, "ok")
    /\ UNCHANGED <<goos, pc, op, ret, before, hist, extractVars, resolveVars, global>>

\* installVersion: InstallNodeVersion's already-installed check and directories
TuiInstallStart(i) ==
    /\ At(i, "install", "start")
    /\ LET Start(versionDir) ==
               IF InList(config.InstalledVersions, TrimPrefix(running[i].version, "v"))
               THEN Done(i, "ok") /\ fs' = fs
               ELSE IF ~MkdirAllOk(fs, goos, versionDir)
               THEN Done(i, "mkdir") /\ fs' = fs
               ELSE Move(i, "download") /\ fs' = MkdirAll(fs, goos, versionDir)
       IN  Start(VersionPath(running[i].version))
    /\ UNCHANGED <<goos, config, pc, op, ret, before, hist, extractVars, resolveVars,
                   global>>

\* installVersion: DownloadFile
TuiDownload(i) ==
    /\ At(i, "install", "download")
    /\ LET Fetch(apath) ==
               \/ Done(i, "download") /\ fs' = fs
               \/ Done(i, "download") /\ fs' = WriteTrunc(fs, apath, "partial")
               \/ \E a \in RemoteArchives(goos) :
                     /\ fs' = WriteTrunc(fs, apath, "archive")
                     /\ tui' = tui
                     /\ running' = [running EXCEPT ![i].at = "extract", ![i].arch = a]
       IN  Fetch(InstallArchivePath(goos, running[i].version))
    /\ UNCHANGED <<goos, config, pc, op, ret, before, hist, extractVars, resolveVars,
                   global>>

\* installVersion: ExtractArchive, with the deferred os.Remove(archivePath) on
\* the failing return
TuiExtract(i) ==
    /\ At(i, "install", "extract")
    /\ LET After(r) ==
               IF r.err
               THEN /\ fs' = RemoveAll(r.fs, goos,
                                       InstallArchivePath(goos, running[i].version))
                    /\ Done(i, "extract")
               ELSE fs' = r.fs /\ Move(i, "verify")
       IN  After(ExtractArchive(fs, goos, InstallArchivePath(goos, running[i].version),
                                VersionPath(running[i].version), running[i].arch))
    /\ UNCHANGED <<goos, config, pc, op, ret, before, hist, extractVars, resolveVars,
                   global>>

\* installVersion: the Windows check for node.exe, the installed list, and the
\* activation accepted at the prompt when no version is active
TuiVerify(i) ==
    /\ At(i, "install", "verify")
    /\ \E response \in {"y", "n"} :
          LET Found(versionDir) ==
                  \/ Exists(fs, Join(goos, versionDir, "node.exe"))
                  \/ Exists(fs, Join(goos, Join(goos, versionDir, "bin"), "node.exe"))
              Listed(list, cleanVersion) ==
                  IF InList(list, cleanVersion) THEN list ELSE Append(list, cleanVersion)
              Cleanup(f) == RemoveAll(f, goos, InstallArchivePath(goos, running[i].version))
              Finish(version, versionDir) ==
                  IF goos = "windows" /\ ~Found(versionDir)
                  THEN /\ fs' = Cleanup(fs)
                       /\ config' = config
                       /\ Done(i, "verify")
                  ELSE /\ IF config.ActiveVersion = "" /\ response = "y"
                          THEN IF ~Exists(fs, versionDir)
                               THEN /\ fs' = Cleanup(fs)
                                    /\ config' = [config EXCEPT !.InstalledVersions =
                                                      Listed(@, TrimPrefix(version, "v"))]
                                    /\ Done(i, "ok")
                               ELSE IF goos = "windows"
                               THEN /\ fs' = Cleanup(UseVersionWindows(fs, goos, version))
                                    /\ config' = [config EXCEPT
                                                      !.InstalledVersions =
                                                          Listed(@, TrimPrefix(version, "v")),
                                                      !.ActiveVersion = version]
                                    /\ Done(i, "ok")
                               ELSE /\ fs' = RemoveAll(MkdirAll(fs, goos,
                                                                Dir(goos, SymlinkDir(goos))),
                                                       goos, SymlinkDir(goos))
                                    /\ config' = [config EXCEPT !.InstalledVersions =
                                                      Listed(@, TrimPrefix(version, "v"))]
                                    /\ Move(i, "link")
                          ELSE /\ fs' = Cleanup(fs)
                               /\ config' = [config EXCEPT !.InstalledVersions =
                                                 Listed(@, TrimPrefix(version, "v"))]
                               /\ Done(i, "ok")
          IN  Finish(running[i].version, VersionPath(running[i].version))
    /\ UNCHANGED <<goos, pc, op, ret, before, hist, extractVars, resolveVars, global>>

\* Update, "esc" away from the menu: no case of the key switch takes it, the
\* list is not consulted, and the text input of the install prompt has no
\* binding for it; the state and the commands in flight stay as they are
KeyEsc ==
    /\ Key
    /\ tui.state \in {"install", "installing"}
    /\ UNCHANGED <<goos, fs, config, pc, op, ret, before, tuiVars, extractVars, resolveVars,
                   global>>

\* versions typed at the install prompt
TuiVersions == {"1", "3"}

NextTui ==
    \/ KeyQuit
    \/ KeyInstall
    \/ KeyEsc
    \/ \E version \in TuiVersions : KeyEnter(version)
    \/ \E i \in 1..2 : KeyUse(i)
    \/ \E i \in 1..2 : KeyUninstall(i)
    \/ \E i \in 1..Len(running) : TuiLoad(i)
    \/ \E i \in 1..Len(running) : TuiUse(i)
    \/ \E i \in 1..Len(running) : TuiLink(i)
    \/ \E i \in 1..Len(running) : TuiUninstall(i)
    \/ \E i \in 1..Len(running) : TuiRemove(i)
    \/ \E i \in 1..Len(running) : TuiInstallStart(i)
    \/ \E i \in 1..Len(running) : TuiDownload(i)
    \/ \E i \in 1..Len(running) : TuiExtract(i)
    \/ \E i \in 1..Len(running) : TuiVerify(i)

SpecTui == InitTui /\ [][NextTui]_vars

\* the operations on the store in flight
Operations == {i \in 1..Len(running) : running[i].name # "load"}

\* C19: the operations on the store run strictly one after another and never
\* overlap: at most one of them is in flight at any time
OperationsNeverOverlap == Cardinality(Operations) <= 1

-----------------------------------------------------------------------------
(* Global install and uninstall (internal: InstallGlobal, UninstallGlobal,   *)
(* PrintIndeterminateProgress).  The caller starts a worker goroutine and an *)
(* indicator goroutine; progressDone, errorChan and doneChannel are          *)
(* unbuffered, so a send and its receive are one step of both sides.         *)

\* the spinner frames of PrintIndeterminateProgress
Spinners == <<"|", "/", "-", "\\">>

\* the platforms the worker's switch tells apart (darwin goes with linux)
GlobalPlatforms == {"linux", "windows", "plan9"}

\* the state of one call: caller, worker and indicator positions, the worker's
\* outcome, what the caller received and returned, and the spinner index i
GlobalCall(name, caller) ==
    [name |-> name, caller |-> caller, worker |-> "none", indicator |-> "none",
     outcome |-> "none", received |-> "none", result |-> "none", i |-> 0]

InitGlobal ==
    /\ goos \in GlobalPlatforms
    /\ global \in {GlobalCall("install", "start"), GlobalCall("uninstall", "prompt")}
    /\ fs = <<>> /\ config = NoConfig
    /\ pc = "global"
    /\ op = NoOp /\ before = NoOp /\ ret = Ret("none", "", "ok", FALSE)
    /\ hist = 0
    /\ archive = NoArchive /\ archivePath = "" /\ destPath = "" /\ entryIdx = 0
    /\ fs0 = <<>>
    /\ index = <<>> /\ versionQuery = "" /\ resolved = NoOp
    /\ tui = NoOp /\ running = <<>>

\* UninstallGlobal: the confirmation; anything but y or yes cancels
GlobalConfirm ==
    /\ global.caller = "prompt"
    /\ \E response \in {"y", "n"} :
          global' = IF response = "y"
                    THEN [global EXCEPT !.caller = "start"]
                    ELSE [global EXCEPT !.caller = "returned", !.result = "cancelled"]
    /\ UNCHANGED <<goos, fs, config, pc, op, ret, before, hist, extractVars, resolveVars,
                   tuiVars>>

\* the caller starts the worker goroutine
GlobalStartWorker ==
    /\ global.caller = "start"
    /\ global' = [global EXCEPT !.caller = "started", !.worker = "run"]
    /\ UNCHANGED <<goos, fs, config, pc, op, ret, before, hist, extractVars, resolveVars,
                   tuiVars>>

\* the caller starts PrintIndeterminateProgress and reaches its select
GlobalStartIndicator ==
    /\ global.caller = "started"
    /\ global' = [global EXCEPT !.caller = "select", !.indicator = "poll"]
    /\ UNCHANGED <<goos, fs, config, pc, op, ret, before, hist, extractVars, resolveVars,
                   tuiVars>>

\* the worker's platform operation returns: an unsupported platform is an
\* error, a supported one fails or succeeds
WorkerFinish ==
    /\ global.worker = "run"
    /\ \E err \in BOOLEAN :
          /\ goos \notin {"windows", "linux"} => err
          /\ global' = [global EXCEPT !.worker = "send",
                                      !.outcome = IF err THEN "err" ELSE "nil"]
    /\ UNCHANGED <<goos, fs, config, pc, op, ret, before, hist, extractVars, resolveVars,
                   tuiVars>>

\* the worker's send on errorChan or progressDone meets the caller's select
WorkerSend ==
    /\ global.worker = "send"
    /\ global.caller = "select"
    /\ global' = [global EXCEPT !.worker = "done", !.caller = "signal",
                                !.received = global.outcome]
    /\ UNCHANGED <<goos, fs, config, pc, op, ret, before, hist, extractVars, resolveVars,
                   tuiVars>>

\* a select that never finds the signal
NeverReady(g) == FALSE

\* the case <-done of the indicator's select can proceed: the caller is in its
\* send on doneChannel
DoneReady(g) == g.caller = "signal"

\* PrintIndeterminateProgress, the select: the signal is received and the task
\* returns, which lets the caller go on to its sleep or its return of the
\* error; with no signal the default case is taken
IndicatorSelect ==
    /\ global.indicator = "poll"
    /\ global' = IF DoneReady(global)
                 THEN IF global.received = "nil"
                      THEN [global EXCEPT !.indicator = "stopped", !.caller = "sleep"]
                      ELSE [global EXCEPT !.indicator = "stopped", !.caller = "returned",
                                          !.result = global.received]
                 ELSE [global EXCEPT !.indicator = "print"]
    /\ UNCHANGED <<goos, fs, config, pc, op, ret, before, hist, extractVars, resolveVars,
                   tuiVars>>

\* PrintIndeterminateProgress, the default case: a frame, the next index, the
\* sleep
IndicatorPrint ==
    /\ global.indicator = "print"
    /\ global' = [global EXCEPT !.indicator = "poll", !.i = (@ + 1) % Len(Spinners)]
    /\ UNCHANGED <<goos, fs, config, pc, op, ret, before, hist, extractVars, resolveVars,
                   tuiVars>>

\* the caller after progressDone: the sleep, the messages, return nil
CallerReturn ==
    /\ global.caller = "sleep"
    /\ global' = [global EXCEPT !.caller = "returned", !.result = "nil"]
    /\ UNCHANGED <<goos, fs, config, pc, op, ret, before, hist, extractVars, resolveVars,
                   tuiVars>>

NextGlobal ==
    \/ GlobalConfirm
    \/ GlobalStartWorker
    \/ GlobalStartIndicator
    \/ WorkerFinish
    \/ WorkerSend
    \/ IndicatorSelect
    \/ IndicatorPrint
    \/ CallerReturn

\* every goroutine that can take a step eventually takes one; the platform
\* operation of the worker is not bound to return
SpecGlobal ==
    /\ InitGlobal
    /\ [][NextGlobal]_vars
    /\ WF_vars(GlobalConfirm)
    /\ WF_vars(GlobalStartWorker)
    /\ WF_vars(GlobalStartIndicator)
    /\ WF_vars(WorkerSend)
    /\ WF_vars(IndicatorSelect)
    /\ WF_vars(IndicatorPrint)
    /\ WF_vars(CallerReturn)

\* the worker operation has finished, with success or with an error
WorkerFinished == global.worker \in {"send", "done"}

\* nobody is left on a channel: the worker has sent, the indicator has stopped,
\* and the caller has returned the worker's outcome
AllReturned ==
    /\ global.worker = "done"
    /\ global.indicator = "stopped"
    /\ global.caller = "returned"
    /\ global.result = global.outcome

\* C20: once the worker operation of a global install or uninstall finishes, the
\* signal reaches the indicator task, the task stops, and the call returns the
\* worker's outcome; no goroutine stays blocked on a channel
GlobalCallCompletes == WorkerFinished ~> AllReturned

\* a global uninstall has returned the worker's error, the indicator having
\* printed and then stopped
GlobalUninstallReturnedError ==
    /\ global.name = "uninstall"
    /\ AllReturned
    /\ global.result = "err"
    /\ global.i > 0

-----------------------------------------------------------------------------
(* Frame conditions of the store's operations *)

\* C21: a use call, successful or failed, leaves the installed list and the set
\* of version directories under the install root as they were before the call
UseKeepsInstalledSet ==
    [][ (pc' = "idle" /\ ret'.name = "use")
        => /\ config'.InstalledVersions = Pre.config.InstalledVersions
           /\ InstalledDirs(fs') = InstalledDirs(Pre.fs) ]_vars

\* a use call has replaced the link while two versions were installed
UseSucceededAmongInstalled ==
    /\ pc = "idle"
    /\ goos = "linux"
    /\ ret.name = "use" /\ ret.res = "ok"
    /\ Len(config.InstalledVersions) = 2
    /\ Cardinality(InstalledDirs(fs)) = 2
    /\ Exists(fs, SymlinkDir(goos))

\* C22: an install call leaves the active version, the activation link and the
\* shims as they were before the call; only a later use changes them
InstallKeepsActivation ==
    [][ (pc' = "idle" /\ ret'.name = "install")
        => /\ config'.ActiveVersion = Pre.config.ActiveVersion
           /\ Activation(fs', config').link = Activation(Pre.fs, Pre.config).link
           /\ Activation(fs', config').shims = Activation(Pre.fs, Pre.config).shims ]_vars

-----------------------------------------------------------------------------
(* Further properties of the release index client *)

\* the components at which two numeric tuples differ
Differing(a, b) == {k \in 1..Len(a) : k <= Len(b) /\ a[k] # b[k]}

\* tuple a is not older than tuple b: at the first component where they differ
\* a's is the greater, and if there is none a is not the shorter
NotOlder(a, b) ==
    IF Differing(a, b) = {} THEN Len(a) >= Len(b)
    ELSE LET Least(D) == CHOOSE k \in D : \A m \in D : k <= m
         IN  a[Least(Differing(a, b))] > b[Least(Differing(a, b))]

\* tuple a is a strict prefix of tuple b
StrictPrefix(a, b) == Len(a) < Len(b) /\ SubSeq(b, 1, Len(a)) = a

\* C23: the list the index fetch returns is sorted newest first by the numeric
\* version components: each entry's tuple is not older than the next entry's,
\* and a version whose tuple is a strict prefix of another's comes after it
IndexSortedNewestFirst ==
    pc = "listed" =>
        /\ \A i \in 1..(Len(resolved.versions) - 1) :
               NotOlder(ExtractVersionNumbers(resolved.versions[i].Version),
                        ExtractVersionNumbers(resolved.versions[i + 1].Version))
        /\ \A i \in 1..Len(resolved.versions), j \in 1..Len(resolved.versions) :
               StrictPrefix(ExtractVersionNumbers(resolved.versions[i].Version),
                            ExtractVersionNumbers(resolved.versions[j].Version))
                  => j < i

\* the index served v10.3 before v10.3.0 and the list has them the other way
\* round
PrefixVersionMovedBack ==
    /\ pc = "listed"
    /\ Len(index) = 2
    /\ index[1].Version = "v10.3" /\ index[2].Version = "v10.3.0"
    /\ resolved.versions = <<index[2], index[1]>>

-----------------------------------------------------------------------------
(* The installed list and the activation link *)

\* no element occurs twice in list
NoDuplicates(list) ==
    \A i \in 1..Len(list), j \in 1..Len(list) : list[i] = list[j] => i = j

\* C24: from the empty default state, the installed list never holds an
\* identifier twice, and an install of an identifier the list already holds
\* leaves the list as it was
InstalledListHasNoDuplicates ==
    [][ /\ NoDuplicates(config'.InstalledVersions)
        /\ ( /\ pc' = "idle"
             /\ ret'.name = "install"
             /\ TrimPrefix(ret'.version, "v") \in Range(Pre.config.InstalledVersions) )
           => config'.InstalledVersions = Pre.config.InstalledVersions ]_vars

\* install("1") has returned with "1" listed before "2": "1" was recorded before
\* "2" was, and this install did not record it again
InstalledAgainAfterOther ==
    /\ pc = "idle"
    /\ ret = Ret("install", "1", "ok", FALSE)
    /\ config.InstalledVersions = <<"1", "2">>

\* a token without its leading "v", if it has one
Bare(token) ==
    IF token # "" /\ SubSeq(token, 1, 1) = "v" THEN SubSeq(token, 2, Len(token)) ELSE token

\* the rows of the index whose version is the token with the leading "v"
Matching(token) == {r \in Range(index) : r.Version = "v" \o Bare(token)}

\* C25: an exact version token resolves the same with and without a leading
\* "v": to the index row whose version is "v" and the bare token, and to the
\* not-found error for that version when the index has no such row
ResolveIgnoresLeadingV ==
    pc = "resolved" =>
        IF Matching(versionQuery) = {}
        THEN resolved = [ok |-> FALSE, version |-> "v" \o Bare(versionQuery)]
        ELSE resolved.ok /\ resolved.version \in Matching(versionQuery)

\* the bare token 10.24.1 has resolved to the row v10.24.1, which is not the
\* first row served
BareTokenResolved ==
    /\ pc = "resolved"
    /\ versionQuery = "10.24.1"
    /\ resolved.ok
    /\ resolved.version.Version = "v10.24.1"
    /\ Len(index) = 2 /\ index[2] = resolved.version

-----------------------------------------------------------------------------
(* Further properties of the unpacker *)

\* C26: tarball extraction never fails at a symbolic-link entry on Windows, where
\* links are not created, nor at an entry of an unsupported type: such an entry is
\* skipped and extraction goes on
TarSkipsUnsupportedEntries ==
    (IsTar /\ pc = "done" /\ ret = "err")
        => ~ \/ archive.entries[entryIdx].typ = "other"
             \/ archive.entries[entryIdx].typ = "symlink" /\ goos = "windows"

-----------------------------------------------------------------------------
(* Further properties of the terminal UI *)

\* C27: in the install prompt of the terminal UI, Esc cancels the input: the menu
\* is shown again and no install operation is started
EscCancelsInstallInput ==
    [][ (tui.state = "install" /\ KeyEsc)
        => tui'.state = "menu" /\ running' = running ]_vars

-----------------------------------------------------------------------------
(* The activation link and the uninstall argument *)

\* C28: on POSIX, between operations, the activation link exists exactly when the
\* recorded active version is not empty, and it then points at the directory of
\* the recorded active version
LinkAgreesWithActiveVersion ==
    (goos = "linux" /\ pc = "idle")
        => /\ (SymlinkDir(goos) \in DOMAIN fs) = (config.ActiveVersion # "")
           /\ SymlinkDir(goos) \in DOMAIN fs
                 => fs[SymlinkDir(goos)] = LinkNode(VersionPath(config.ActiveVersion))

\* arguments of the uninstall command: a version, the empty string, a version
\* with a trailing separator, and the parent directory
UninstallArgs == {"1", "", "1/", ".."}

NextUninstall ==
    \/ \E version \in CliVersions : InstallStart(version) /\ Command
    \/ InstallDownload /\ UNCHANGED hist
    \/ InstallExtract /\ UNCHANGED hist
    \/ InstallVerify /\ UNCHANGED hist
    \/ \E version \in CliVersions : UseStart(version) /\ Command
    \/ UseLink /\ UNCHANGED hist
    \/ \E version \in UninstallArgs : Uninstall(version) /\ Command

SpecUninstall == Init /\ [][NextUninstall]_vars

\* C29: whatever argument the uninstall command is given, a successful uninstall
\* deletes nothing but the directory of one installed version that is not the
\* active one: the install root and the active version's directory are still
\* there afterwards
UninstallDeletesOneInactiveVersion ==
    [][ (pc = "idle" /\ hist' # hist /\ ret'.name = "uninstall" /\ ret'.res = "ok")
        => /\ GetInstallPath(goos) \in DOMAIN fs'
           /\ (config.ActiveVersion # "" /\ VersionPath(config.ActiveVersion) \in DOMAIN fs)
                 => VersionPath(config.ActiveVersion) \in DOMAIN fs'
           /\ \E v \in Range(config.InstalledVersions) \ {config.ActiveVersion} :
                 \A p \in DOMAIN fs \ DOMAIN fs' : Inside(goos, VersionPath(v), p) ]_vars

-----------------------------------------------------------------------------
(* The top-level directory in zip extraction *)

\* the path components of an entry's name
Components(e) == Split(FromSlash(goos, e.name), Separator(goos))

\* C30: in zip extraction with top-level directory T, a file entry whose first
\* path component is not exactly T is extracted at the destination joined with
\* its whole relative path; T is taken off only where it is the first component
ZipKeepsPathOutsideTopLevelDir ==
    [][ ( /\ IsZip
          /\ pc = "entries"
          /\ entryIdx' = entryIdx + 1
          /\ archive.entries[entryIdx].typ = "file"
          /\ Components(archive.entries[entryIdx])[1]
                # ZipTopLevelDir(goos, archive.entries)
          /\ \A c \in Range(Components(archive.entries[entryIdx])) :
                c \notin {"", ".", ".."} )
        => /\ Join(goos, destPath, FromSlash(goos, archive.entries[entryIdx].name))
                \in DOMAIN fs'
           /\ fs'[Join(goos, destPath, FromSlash(goos, archive.entries[entryIdx].name))]
                = FileNode(archive.entries[entryIdx].data) ]_vars

====
